---------------------------- MODULE Spec2Model ----------------------------
(***************************************************************************)
(* A model of the sub-canopy structure detector                            *)
(* (tools/python/sub-canopy-detector/src/sub_canopy_detector/analysis.py): *)
(* the constructor of SubCanopyAnalyser with its fusion-weight check, and  *)
(* the steps of run().                                                     *)
(*                                                                         *)
(* Numbers.  The weight check and the fusion are Python / numpy binary64   *)
(* arithmetic, and the outcome of the weight check at the edge of its      *)
(* tolerance is decided by binary64 rounding, so binary64 is modelled      *)
(* exactly: a non-negative double below 2.0 is the pair <<hi, lo>> that    *)
(* stands for (hi * 2^30 + lo) * 2^-60, and FRound rounds to 53            *)
(* significant bits, ties to even.  A parameter is kept as the decimal     *)
(* literal the caller wrote, the pair <<n, den>> for n/den; DoubleOf is    *)
(* the conversion of that literal to binary64.  The rasters of run() are   *)
(* numpy arrays; their arithmetic is modelled by decimal floats <<m, e>>   *)
(* of four significant digits that overflow to infinity, underflow to 0    *)
(* and carry NaN as numpy does.                                            *)
(*                                                                         *)
(* Specifications.  Spec is the constructor and step 1; SpecIndicators     *)
(* runs steps 1-3 on SAR stacks; SpecMasks, SpecFusion and SpecOpen take   *)
(* the rasters of the earlier steps as inputs and run the forest mask,     *)
(* the fusion with its confidence zones, and the morphological opening.    *)
(***************************************************************************)
EXTENDS Integers, Sequences, FiniteSets, TLC

VARIABLES
    pc,          \* where the analyser is: "new", "constructed", "raised", then the
                 \* step of run() it has completed
    params,      \* self.params: every parameter as the decimal literal <<n, den>>
    imagery,     \* self.imagery: the band names of the SAR stack, its two
                 \* bands as scenes of rasters, and the time of each scene
    total_w,     \* __init__'s total_w, a binary64 value
    error,       \* the message of the exception raised, "" when none
    reads,       \* how many times the imagery has been read
    indicators,  \* run(): the eight indicator rasters, by name
    combined_mask, \* run(): validity & forest & slope
    fusion,      \* run(): the weighted sum of the indicators
    probability, \* run(): fusion inside the combined mask, NaN outside
    confidence,  \* run(): the confidence zones
    clean_prob,  \* run(): the probability after the morphological opening
    ndvi,        \* run(): the vegetation index raster
    ndwi,        \* run(): the water index raster
    ndbi,        \* run(): the built-up index raster
    forest_mask, \* run(): the forest mask
    vv_stack,    \* run(): the co-polarized scenes
    vh_stack,    \* run(): the cross-polarized scenes
    s1_time_arr, \* run(): the time of each scene
    vv_mean,     \* run(): the temporal mean of vv_stack
    vh_mean,     \* run(): the temporal mean of vh_stack
    vv_std,      \* run(): the temporal standard deviation of vv_stack
    ndbi_anomaly, \* run(): the anomaly of the built-up index
    validity_mask, \* run(): the validity mask
    slope_mask,  \* run(): the slope mask
    transform,   \* run(): the affine transform of the grid
    footprints,  \* run(): the raw footprint table
    regularized, \* run(): the regularized footprint table
    result,      \* what run() has returned to its caller, None before
    default_params, \* the module-level dict DEFAULT_PARAMS
    caller,      \* the AOI descriptor the caller passed, as the caller holds it
    other_params, \* self.params of an analyser constructed earlier, if any
    monitor_pc,  \* where the change monitor is: "none", "constructed", then how
                 \* its latest run() ended, "returned" or "raised"
    osm_tag,     \* OSMChangeMonitor.osm_tag, a string as its characters
    notifiers,   \* OSMChangeMonitor.notifiers, the backends in order
    snapshot_file, \* the features of latest_snapshot.json, None while no file
    last_change_set, \* OSMChangeMonitor._last_change_set
    fresh_features, \* process(): the answer of the latest query, empty before
    calls,       \* the send() calls of the latest run(), by notifier position
    logged,      \* the notifiers whose send() failed in the latest run()
    client_pc,   \* where the Overpass client is: "none", "constructed", then how
                 \* its latest query_tag_in_bbox() ended, "returned" or "raised"
    max_retries, \* OverpassClient.max_retries
    attempts,    \* the latest query_tag_in_bbox(): what it did, in order: a
                 \* query that answered "ok", one that failed "error", a "sleep"
    snapshots    \* the latest query_tag_in_bbox(): the list it returned

ctor == <<params, imagery, total_w>>
s1 == <<vv_stack, vh_stack, s1_time_arr, vv_mean, vh_mean, vv_std>>
s2 == <<ndvi, ndwi, ndbi, ndbi_anomaly>>
fused == <<indicators, combined_mask, fusion, probability>>
rasters == <<s1, s2, forest_mask, fused, confidence, clean_prob>>
masks == <<validity_mask, slope_mask>>
vector == <<transform, footprints, regularized, result>>
owner == <<default_params, caller, other_params>>
later == <<masks, vector, owner>>
analyser == <<pc, ctor, error, reads, rasters, later>>
polling == <<monitor_pc, osm_tag, notifiers, snapshot_file, last_change_set,
             fresh_features, calls, logged>>
client == <<client_pc, max_retries, attempts, snapshots>>
monitor == <<polling, client>>
vars == <<analyser, monitor>>

(***************************************************************************)
(* Bounds of the model.                                                    *)
(***************************************************************************)
\* an overridden weight is its default plus k/100, k in -Spread .. Spread
Spread == 3
\* the rasters of the indicators, the fusion and the masks have one row of
\* NPix pixels
NPix == 2
\* the SAR stack of the indicators has NScenes scenes
NScenes == 6
\* the probability raster of the morphological opening is GridSize x GridSize
GridSize == 5
\* the rasters of the vectorisation are VectorSize x VectorSize
VectorSize == 7

(***************************************************************************)
(* binary64, exactly.                                                      *)
(***************************************************************************)
Pow2(n) == 2 ^ n

\* the low limb holds 30 bits
Limb == Pow2(30)

RECURSIVE Log2(_)
\* floor(log2 n) for n >= 1
Log2(n) == IF n <= 1 THEN 0 ELSE 1 + Log2(n \div 2)

\* floor(log2 (hi * 2^30 + lo)) of a non-zero pair
Exponent(hi, lo) == IF hi > 0 THEN 30 + Log2(hi) ELSE Log2(lo)

\* round hi * 2^30 + lo + rem/den (0 <= rem < den) to 53 significant bits,
\* to nearest, ties to even: IEEE 754 roundTiesToEven
FRound(hi, lo, rem, den) ==
    IF hi = 0 /\ lo = 0 THEN <<0, 0>>
    ELSE LET e    == Exponent(hi, lo)
             q    == IF e > 52 THEN Pow2(e - 52) ELSE 1
             r    == lo % q
             base == lo - r
             twice == 2 * (r * den + rem)
             whole == q * den
             up   == \/ twice > whole
                     \/ twice = whole /\ (lo \div q) % 2 = 1
             lo2  == IF up THEN base + q ELSE base
         IN  IF lo2 >= Limb THEN <<hi + 1, lo2 - Limb>> ELSE <<hi, lo2>>

\* the double nearest to the decimal literal n/den (n/den = 0 or 2^-8 <= n/den < 2)
DoubleOf(n, den) ==
    LET t1 == n * Pow2(15)
        q1 == t1 \div den
        t2 == (t1 % den) * Pow2(15)
        q2 == t2 \div den
        t3 == (t2 % den) * Pow2(15)
        q3 == t3 \div den
        t4 == (t3 % den) * Pow2(15)
        q4 == t4 \div den
    IN  FRound(q1 * Pow2(15) + q2, q3 * Pow2(15) + q4, t4 % den, den)

FZero == <<0, 0>>
FOne == <<Limb, 0>>

\* a + b in binary64, a, b >= 0 and a + b < 2
FAdd(a, b) ==
    LET lo == a[2] + b[2]
    IN  FRound(a[1] + b[1] + (lo \div Limb), lo % Limb, 0, 1)

FLt(a, b) == a[1] < b[1] \/ (a[1] = b[1] /\ a[2] < b[2])
FLe(a, b) == a = b \/ FLt(a, b)

\* |a - b| in binary64 (the difference of two doubles below 2 that are
\* multiples of 2^-60 is such a multiple; FRound drops the bits beyond 53)
FAbsDiff(a, b) ==
    LET x  == IF FLt(a, b) THEN b ELSE a
        y  == IF FLt(a, b) THEN a ELSE b
        borrow == IF x[2] < y[2] THEN 1 ELSE 0
    IN  FRound(x[1] - y[1] - borrow, x[2] - y[2] + borrow * Limb, 0, 1)


(***************************************************************************)
(* numpy array arithmetic.  The rasters are float32 arrays (line 406); a   *)
(* float is modelled as a decimal floating-point number <<m, e>> that      *)
(* stands for m * 10^e, with a mantissa of four digits (m = 0, or          *)
(* 1000 <= |m| <= 9999), rounded to nearest, ties to even, with the three  *)
(* IEEE 754 special values.  A result above the largest float32 is an      *)
(* infinity, a result below the smallest is zero.                          *)
(***************************************************************************)
Pow10(n) == 10 ^ n

\* the mantissa has four digits: MantLo <= |m| < MantHi
MantHi == Pow10(4)
MantLo == Pow10(3)

\* float32: the largest finite value is about 3.4e38, the smallest 1.4e-45
MaxExp10 == 38
MinExp10 == 45

\* the exponent field that marks a special value
SpecialExp == Pow10(3)
NaN == <<0, SpecialExp>>
PosInf == <<1, SpecialExp>>
NegInf == <<-1, SpecialExp>>

IsNaN(x) == x = NaN
IsInf(x) == x = PosInf \/ x = NegInf
IsFinite(x) == x[2] # SpecialExp

Abs(n) == IF n < 0 THEN -n ELSE n
Sign(n) == IF n < 0 THEN -1 ELSE IF n > 0 THEN 1 ELSE 0

RECURSIVE NumDigits(_)
\* the number of decimal digits of n >= 1
NumDigits(n) == IF n < 10 THEN 1 ELSE 1 + NumDigits(n \div 10)

\* m * 10^e (plus a little, when sticky = 1) rounded to a float
FltNorm(m, e, sticky) ==
    IF m = 0 THEN <<0, 0>>
    ELSE LET a  == Abs(m)
             nd == NumDigits(a)
             k  == nd - 4
             q  == IF k > 0 THEN a \div Pow10(k) ELSE a * Pow10(-k)
             r  == IF k > 0 THEN a % Pow10(k) ELSE 0
             up == /\ k > 0
                   /\ \/ 2 * r > Pow10(k)
                      \/ 2 * r = Pow10(k) /\ (sticky = 1 \/ q % 2 = 1)
             q2 == IF up THEN q + 1 ELSE q
             m3 == IF q2 = MantHi THEN MantLo ELSE q2
             e3 == IF q2 = MantHi THEN e + k + 1 ELSE e + k
         IN  IF e3 + 3 > MaxExp10 THEN <<Sign(m), SpecialExp>>
             ELSE IF e3 + 3 < -MinExp10 THEN <<0, 0>>
             ELSE <<Sign(m) * m3, e3>>

\* the float of the decimal literal n/den, den a power of ten
Flt(lit) == FltNorm(lit[1], -(NumDigits(lit[2]) - 1), 0)

FltZero == <<0, 0>>
FltOne == Flt(<<1, 1>>)
\* 1e-10, the guard of the denominators
Eps == <<MantLo, -13>>

FltNeg(x) == <<-x[1], x[2]>>

FltAdd(x, y) ==
    IF IsNaN(x) \/ IsNaN(y) THEN NaN
    ELSE IF IsInf(x) THEN (IF IsInf(y) /\ y # x THEN NaN ELSE x)
    ELSE IF IsInf(y) THEN y
    ELSE IF x[1] = 0 THEN y
    ELSE IF y[1] = 0 THEN x
    ELSE LET hi == IF x[2] >= y[2] THEN x ELSE y
             lo == IF x[2] >= y[2] THEN y ELSE x
             d  == hi[2] - lo[2]
         IN  IF d > 5 THEN hi
             ELSE FltNorm(hi[1] * Pow10(d) + lo[1], lo[2], 0)

FltSub(x, y) == FltAdd(x, FltNeg(y))

FltMul(x, y) ==
    IF IsNaN(x) \/ IsNaN(y) THEN NaN
    ELSE IF IsInf(x) \/ IsInf(y)
         THEN (IF x[1] = 0 \/ y[1] = 0 THEN NaN ELSE <<Sign(x[1]) * Sign(y[1]), SpecialExp>>)
    ELSE FltNorm(x[1] * y[1], x[2] + y[2], 0)

\* x / y; a division by zero gives an infinity, 0/0 and inf/inf give NaN
\* (numpy warns and does not raise)
FltDiv(x, y) ==
    IF IsNaN(x) \/ IsNaN(y) THEN NaN
    ELSE IF IsInf(x) THEN (IF IsInf(y) THEN NaN
                           ELSE <<x[1] * (IF y[1] < 0 THEN -1 ELSE 1), SpecialExp>>)
    ELSE IF IsInf(y) THEN FltZero
    ELSE IF y[1] = 0 THEN (IF x[1] = 0 THEN NaN ELSE <<Sign(x[1]), SpecialExp>>)
    ELSE LET n == Abs(x[1]) * Pow10(5)
             q == n \div Abs(y[1])
             r == n % Abs(y[1])
         IN  FltNorm(Sign(x[1]) * Sign(y[1]) * q, x[2] - y[2] - 5,
                     IF r > 0 THEN 1 ELSE 0)

\* x < y; false when either is NaN
FltLt(x, y) ==
    IF IsNaN(x) \/ IsNaN(y) THEN FALSE
    ELSE IF x = y THEN FALSE
    ELSE IF x = NegInf \/ y = PosInf THEN TRUE
    ELSE IF x = PosInf \/ y = NegInf THEN FALSE
    ELSE IF Sign(x[1]) # Sign(y[1]) THEN x[1] < y[1]
    ELSE IF x[1] > 0 THEN x[2] < y[2] \/ (x[2] = y[2] /\ x[1] < y[1])
    ELSE x[2] > y[2] \/ (x[2] = y[2] /\ x[1] < y[1])

\* x >= y; false when either is NaN
FltGe(x, y) == ~ IsNaN(x) /\ ~ IsNaN(y) /\ ~ FltLt(x, y)
FltGt(x, y) == FltLt(y, x)
FltLe(x, y) == FltGe(y, x)

\* np.maximum, np.minimum: a NaN operand gives NaN
FltMax(x, y) == IF IsNaN(x) \/ IsNaN(y) THEN NaN ELSE IF FltLt(x, y) THEN y ELSE x
FltMin(x, y) == IF IsNaN(x) \/ IsNaN(y) THEN NaN ELSE IF FltLt(y, x) THEN y ELSE x

\* np.clip(x, lo, hi) = minimum(maximum(x, lo), hi)
Clip(x, lo, hi) == FltMin(FltMax(x, lo), hi)

RECURSIVE IsqrtIn(_, _, _)
\* the largest r in lo .. hi with r * r <= n
IsqrtIn(n, lo, hi) ==
    IF lo >= hi THEN lo
    ELSE LET mid == (lo + hi + 1) \div 2
         IN  IF mid * mid <= n THEN IsqrtIn(n, mid, hi) ELSE IsqrtIn(n, lo, mid - 1)

\* np.sqrt: NaN for a negative operand
FltSqrt(x) ==
    IF IsNaN(x) \/ x[1] < 0 THEN NaN
    ELSE IF x = PosInf \/ x[1] = 0 THEN x
    ELSE LET odd == x[2] % 2 # 0
             n  == x[1] * (IF odd THEN Pow10(5) ELSE Pow10(4))
             e  == IF odd THEN x[2] - 5 ELSE x[2] - 4
             r  == IsqrtIn(n, 0, 31622)
         IN  IF odd THEN FltNorm(r, e \div 2, IF r * r = n THEN 0 ELSE 1)
             ELSE FltNorm(IF n > r * r + r THEN r + 1 ELSE r, e \div 2, 0)

\* the float of the integer n
FltInt(n) == FltNorm(n, 0, 0)

Sq(x) == FltMul(x, x)

\* log10(d) * 10^4 for d = 1 .. 10
Log10Table == <<0, 3010, 4771, 6021, 6990, 7782, 8451, 9031, 9542, 10000>>

\* np.log10, to two decimals or better: exact at the powers of ten, and
\* interpolated in the table between two leading digits; -inf at 0, NaN for
\* a negative operand
Log10(x) ==
    IF IsNaN(x) \/ x[1] < 0 THEN NaN
    ELSE IF x = PosInf THEN PosInf
    ELSE IF x[1] = 0 THEN NegInf
    ELSE LET d == x[1] \div MantLo
             l == Log10Table[d] + ((Log10Table[d + 1] - Log10Table[d]) * (x[1] % MantLo)) \div MantLo
         IN  FltNorm((x[2] + 3) * MantHi + l, -4, 0)

\* the values of the sequence s that are not NaN
Kept(s) == SelectSeq(s, LAMBDA v : ~ IsNaN(v))

RECURSIVE FltSum(_)
\* the sum of the sequence s, added left to right
FltSum(s) ==
    IF Len(s) = 0 THEN FltZero
    ELSE FltAdd(FltSum(SubSeq(s, 1, Len(s) - 1)), s[Len(s)])

\* np.nanmean of a sequence: NaN (and a warning) when every value is NaN
NanMean(s) ==
    LET k == Kept(s)
    IN  IF Len(k) = 0 THEN NaN ELSE FltDiv(FltSum(k), FltInt(Len(k)))

\* np.nanstd of a sequence
NanStd(s) ==
    LET k == Kept(s)
        m == NanMean(s)
    IN  IF Len(k) = 0 THEN NaN
        ELSE FltSqrt(FltDiv(FltSum([i \in 1..Len(k) |-> Sq(FltSub(k[i], m))]),
                            FltInt(Len(k))))

\* the values of pixel px along the time axis of a stack
Series(stack, px) == [t \in 1..Len(stack) |-> stack[t][px]]

(***************************************************************************)
(* Parameters and the constructor.                                         *)
(***************************************************************************)
Weights == <<"w_stability", "w_polratio", "w_texture", "w_anomaly",
             "w_optical", "w_entropy", "w_coherence", "w_seasonal">>

DEFAULT_PARAMS ==
    [ forest_ndvi_threshold |-> <<55, 100>>,
      water_ndwi_threshold  |-> <<15, 100>>,
      stability_floor       |-> <<70, 100>>,
      texture_kernel_radius |-> <<3, 1>>,
      anomaly_kernel_radius |-> <<15, 1>>,
      anomaly_sigma         |-> <<15, 10>>,
      w_stability           |-> <<18, 100>>,
      w_polratio            |-> <<12, 100>>,
      w_texture             |-> <<12, 100>>,
      w_anomaly             |-> <<13, 100>>,
      w_optical             |-> <<10, 100>>,
      w_entropy             |-> <<13, 100>>,
      w_coherence           |-> <<12, 100>>,
      w_seasonal            |-> <<10, 100>>,
      thresh_high           |-> <<65, 100>>,
      thresh_medium         |-> <<45, 100>>,
      min_footprint_area    |-> <<80, 1>>,
      slope_threshold       |-> <<15, 1>>,
      pol_ratio_min         |-> <<2, 100>>,
      pol_ratio_max         |-> <<30, 100>>,
      edge_erosion_px       |-> <<2, 1>>,
      min_compactness       |-> <<15, 100>>,
      min_rectangularity    |-> <<35, 100>>,
      max_aspect_ratio      |-> <<10, 1>>,
      max_footprint_area    |-> <<25000, 1>>,
      min_building_score    |-> <<35, 100>>,
      min_solidity          |-> <<40, 100>> ]

\* {**DEFAULT_PARAMS, **params}: the overrides win, the other keys keep
\* their defaults
MergeParams(defaults, overrides) ==
    [k \in DOMAIN defaults |->
        IF k \in DOMAIN overrides THEN overrides[k] ELSE defaults[k]]

\* the mutant of AssignParams: DEFAULT_PARAMS.update(params), then
\* self.params = DEFAULT_PARAMS
AssignParamsInPlace(defaults, overrides) ==
    [DEFAULT_PARAMS |-> MergeParams(defaults, overrides),
     params |-> MergeParams(defaults, overrides)]

\* self.params = {**DEFAULT_PARAMS, **params}: the module-level dict after
\* the statement, and the new dict bound to self.params
AssignParams(defaults, overrides) ==
    [DEFAULT_PARAMS |-> defaults, params |-> MergeParams(defaults, overrides)]

W(p, i) == DoubleOf(p[Weights[i]][1], p[Weights[i]][2])

\* the mutant of TotalWeight: the sum of the five classic weights only
TotalWeightClassicOnly(p) ==
    FAdd(FAdd(FAdd(FAdd(W(p, 1), W(p, 2)), W(p, 3)), W(p, 4)), W(p, 5))

\* total_w: the eight weights added left to right
TotalWeight(p) ==
    FAdd(FAdd(FAdd(FAdd(FAdd(FAdd(FAdd(W(p, 1), W(p, 2)), W(p, 3)), W(p, 4)),
                   W(p, 5)), W(p, 6)), W(p, 7)), W(p, 8))

\* the mutant of WeightsRejected: total_w - 1.0 > 0.01, the abs() forgotten
WeightsRejectedNoAbs(t) ==
    FLt(FOne, t) /\ FLt(DoubleOf(1, 100), FAbsDiff(t, FOne))

\* abs(total_w - 1.0) > 0.01
WeightsRejected(t) == FLt(DoubleOf(1, 100), FAbsDiff(t, FOne))

WeightError == "Fusion weights must sum to 1.0"

\* SubCanopyAnalyser(aoi, imagery, **overrides)
Construct(overrides, img) ==
    /\ pc = "new"
    /\ params' = AssignParams(default_params, overrides).params
    /\ default_params' = AssignParams(default_params, overrides).DEFAULT_PARAMS
    /\ imagery' = img
    /\ total_w' = TotalWeight(params')
    /\ IF WeightsRejected(total_w')
       THEN pc' = "raised" /\ error' = WeightError
       ELSE pc' = "constructed" /\ error' = ""
    /\ UNCHANGED <<reads, rasters, masks, vector, caller, other_params, monitor>>

\* run(), to the end of the band lookup of _compute_s1_stats: the first
\* read of the imagery; KeyError when there is no vv or no vh band
ComputeS1Stats ==
    /\ pc = "constructed"
    /\ reads' = reads + 1
    /\ IF "vv" \in imagery.s1_bands /\ "vh" \in imagery.s1_bands
       THEN /\ vv_stack' = imagery.vv
            /\ vh_stack' = imagery.vh
            /\ vv_mean' = [px \in DOMAIN imagery.vv[1] |-> NanMean(Series(imagery.vv, px))]
            /\ vv_std' = [px \in DOMAIN imagery.vv[1] |-> NanStd(Series(imagery.vv, px))]
            /\ vh_mean' = [px \in DOMAIN imagery.vh[1] |-> NanMean(Series(imagery.vh, px))]
            /\ s1_time_arr' = imagery.time
            /\ pc' = "s1_stats"
            /\ error' = ""
       ELSE /\ pc' = "raised"
            /\ error' = "Expected 'vv' and 'vh' bands in S1 data"
            /\ UNCHANGED s1
    /\ UNCHANGED <<ctor, s2, forest_mask, fused, confidence, clean_prob>>
    /\ UNCHANGED <<later, monitor>>

\* the overrides a caller passes: the four last weights, each its default
\* plus k/100
Hundredths(key, k) == <<DEFAULT_PARAMS[key][1] + k, 100>>

WeightOverrides ==
    { [w_optical |-> Hundredths("w_optical", a), w_entropy |-> Hundredths("w_entropy", b),
       w_coherence |-> Hundredths("w_coherence", c), w_seasonal |-> Hundredths("w_seasonal", d)] :
        a \in -Spread..Spread, b \in -Spread..Spread,
        c \in -Spread..Spread, d \in -Spread..Spread }
    \cup { << >> }

\* a date of the year 2023
Date(m, d) == [year |-> 2023, month |-> m, day |-> d]

\* one scene of one pixel, under the band names given
OneScene(bands) ==
    [s1_bands |-> bands, vv |-> << <<FltOne>> >>, vh |-> << <<FltOne>> >>,
     time |-> <<Date(1, 1)>>]

PlainImagery == OneScene({"vv", "vh"})

Imageries == { PlainImagery, OneScene({"hh", "hv"}) }

\* no object: what a name holds before its assignment
None == [none |-> TRUE]

\* the AOI descriptor: the UTM zone and the bounding box in metres
Aoi == [utm_epsg |-> 32616, bbox_utm |-> <<0, 0, 10000, 10000>>]

Init ==
    /\ pc = "new"
    /\ params = DEFAULT_PARAMS
    /\ imagery = [s1_bands |-> {}, vv |-> << >>, vh |-> << >>, time |-> << >>]
    /\ total_w = FZero
    /\ error = ""
    /\ reads = 0
    /\ indicators = << >>
    /\ combined_mask = << >>
    /\ fusion = << >>
    /\ probability = << >>
    /\ confidence = << >>
    /\ clean_prob = << >>
    /\ ndvi = << >>
    /\ ndwi = << >>
    /\ ndbi = << >>
    /\ forest_mask = << >>
    /\ vv_stack = << >>
    /\ vh_stack = << >>
    /\ s1_time_arr = << >>
    /\ vv_mean = << >>
    /\ vh_mean = << >>
    /\ vv_std = << >>
    /\ ndbi_anomaly = << >>
    /\ validity_mask = << >>
    /\ slope_mask = << >>
    /\ transform = << >>
    /\ footprints = None
    /\ regularized = None
    /\ result = None
    /\ default_params = DEFAULT_PARAMS
    /\ caller = Aoi
    /\ other_params = None
    /\ monitor_pc = "none"
    /\ osm_tag = << >>
    /\ notifiers = << >>
    /\ snapshot_file = None
    /\ last_change_set = None
    /\ fresh_features = {}
    /\ calls = << >>
    /\ logged = {}
    /\ client_pc = "none"
    /\ max_retries = 0
    /\ attempts = << >>
    /\ snapshots = {}

Next ==
    \/ \E ov \in WeightOverrides, img \in Imageries : Construct(ov, img)
    \/ ComputeS1Stats

Spec == Init /\ [][Next]_vars


(***************************************************************************)
(* run(), steps 2 and 3: the indicators.  A raster here has one row, so a  *)
(* filter runs along the row only.                                         *)
(***************************************************************************)
\* the integer a parameter literal stands for
IntOf(lit) == lit[1] \div lit[2]

\* the mutant of Stability: the mean divides without its guard
StabilityNoGuard(p, mean, std) ==
    [px \in DOMAIN mean |->
        LET cov == FltDiv(std[px], mean[px])
            raw == FltSub(FltOne, Clip(cov, FltZero, FltOne))
        IN  Clip(raw, Flt(p.stability_floor), FltOne)]

\* the mutant of Stability: no floor
StabilityNoFloor(p, mean, std) ==
    [px \in DOMAIN mean |->
        LET cov == FltDiv(std[px], FltMax(mean[px], Eps))
        IN  FltSub(FltOne, Clip(cov, FltZero, FltOne))]

\* _stability
Stability(p, mean, std) ==
    [px \in DOMAIN mean |->
        LET cov == FltDiv(std[px], FltMax(mean[px], Eps))
            raw == FltSub(FltOne, Clip(cov, FltZero, FltOne))
        IN  Clip(raw, Flt(p.stability_floor), FltOne)]

\* _pol_ratio
PolRatio(p, vvm, vhm) ==
    [px \in DOMAIN vvm |->
        LET ratio == FltDiv(vhm[px], FltMax(vvm[px], Eps))
            cmin == Flt(p.pol_ratio_min)
            cmax == Flt(p.pol_ratio_max)
        IN  Clip(FltDiv(FltSub(ratio, cmin), FltAdd(FltSub(cmax, cmin), Eps)),
                 FltZero, FltOne)]

\* 10.0 * np.log10(np.maximum(vv_mean, 1e-10))
MeanDb(mean) == [px \in DOMAIN mean |-> FltMul(FltInt(10), Log10(FltMax(mean[px], Eps)))]

RECURSIVE Sorted(_)
\* the sequence s in ascending order
Sorted(s) ==
    IF Len(s) <= 1 THEN s
    ELSE LET i == CHOOSE i \in 1..Len(s) : \A j \in 1..Len(s) : ~ FltLt(s[j], s[i])
         IN  <<s[i]>> \o Sorted(SubSeq(s, 1, i - 1) \o SubSeq(s, i + 1, Len(s)))

\* the interpolation of np.percentile between the ranks a and b, at g/100
Lerp(a, b, g) ==
    IF g >= 50 THEN FltSub(b, FltMul(FltSub(b, a), FltSub(FltOne, Flt(<<g, 100>>))))
    ELSE FltAdd(a, FltMul(FltSub(b, a), Flt(<<g, 100>>)))

\* the percentile q of the ascending sequence k
PercentileOf(k, q) ==
    IF Len(k) = 0 THEN NaN
    ELSE Lerp(k[(q * (Len(k) - 1)) \div 100 + 1],
              k[IF (q * (Len(k) - 1)) \div 100 + 2 > Len(k) THEN Len(k)
                ELSE (q * (Len(k) - 1)) \div 100 + 2],
              (q * (Len(k) - 1)) % 100)

\* np.nanpercentile(s, q), linear interpolation between the two nearest ranks
NanPercentile(s, q) == PercentileOf(Sorted(Kept(s)), q)

\* the pixel that position i of a row of n pixels reads under mode "reflect"
Reflect(i, n) ==
    LET j == (i - 1) % (2 * n)
    IN  IF j >= n THEN 2 * n - j ELSE j + 1

\* uniform_filter(img, size = size)
UniformFilter(img, size) ==
    [px \in DOMAIN img |->
        FltDiv(FltSum([k \in 1..size |-> img[Reflect(px - size \div 2 + k - 1, Len(img))]]),
               FltInt(size))]

\* (img - lo) / (hi - lo + 1e-10) * scale, clipped to [0, scale]
Stretch(img, lo, hi, scale) ==
    [px \in DOMAIN img |->
        Clip(FltMul(FltDiv(FltSub(img[px], lo), FltAdd(FltSub(hi, lo), Eps)), scale),
             FltZero, scale)]

\* np.where(np.isnan(img), v, img)
Filled(img, v) == [px \in DOMAIN img |-> IF IsNaN(img[px]) THEN v ELSE img[px]]

\* local_mean / (local_var + 1.0), local_var = max(local_sq - local_mean ** 2, 0)
Homogeneity(local_mean, local_sq) ==
    [px \in DOMAIN local_mean |->
        FltDiv(local_mean[px],
               FltAdd(FltMax(FltSub(local_sq[px], Sq(local_mean[px])), FltZero), FltOne))]

\* the homogeneity of the filled raster, in windows of the given size
LocalHomogeneity(filled, size) ==
    Homogeneity(UniformFilter(filled, size),
                UniformFilter([px \in DOMAIN filled |-> Sq(filled[px])], size))

\* a raster stretched to [0, scale] between its percentiles 2 and 98
PercentileStretch(img, scale) ==
    Stretch(img, NanPercentile(img, 2), NanPercentile(img, 98), scale)

\* _texture
Texture(img, kernel_radius) ==
    PercentileStretch(
        LocalHomogeneity(Filled(PercentileStretch(img, FltInt(255)), FltZero),
                         2 * kernel_radius + 1),
        FltOne)

\* the weights of the Gaussian kernel of sigma = 1, truncated at 4 sigma:
\* the centre, then the taps at distance 1 to 4
GaussKernel == <<Flt(<<3989, 10000>>), Flt(<<2420, 10000>>), Flt(<<5399, 100000>>),
                 Flt(<<4432, 1000000>>), Flt(<<1338, 10000000>>)>>

\* gaussian_filter(img, sigma = 1.0)
GaussianFilter(img) ==
    [px \in DOMAIN img |->
        FltAdd(FltMul(GaussKernel[1], img[px]),
               FltSum([k \in 1..4 |->
                   FltMul(GaussKernel[k + 1],
                          FltAdd(img[Reflect(px - k, Len(img))],
                                 img[Reflect(px + k, Len(img))]))]))]

\* residual / (sigma_scale * r_std + 1e-10), mapped from [-3, 3] to [0, 1]
ZScore(residual, r_std, sigma_scale) ==
    [px \in DOMAIN residual |->
        Clip(FltDiv(FltAdd(FltDiv(residual[px], FltAdd(FltMul(sigma_scale, r_std), Eps)),
                           FltInt(3)),
                    FltInt(6)),
             FltZero, FltOne)]

\* filled - smooth
Residual(filled, smooth) == [px \in DOMAIN filled |-> FltSub(filled[px], smooth[px])]

\* the anomaly of a raster whose missing pixels are filled
AnomalyOfResidual(residual, sigma_scale) == ZScore(residual, NanStd(residual), sigma_scale)

AnomalyOfFilled(filled, sigma_scale) ==
    AnomalyOfResidual(Residual(filled, GaussianFilter(filled)), sigma_scale)

\* _anomaly, for kernel_radius = 1
Anomaly(image, sigma_scale) == AnomalyOfFilled(Filled(image, NanMean(image)), sigma_scale)

\* std / max(mean, 1e-10)
CoeffOfVariation(s) == FltDiv(NanStd(s), FltMax(NanMean(s), Eps))

\* _cross_pol_entropy
CrossPolEntropy(vvs, vhs) ==
    [px \in DOMAIN vvs[1] |->
        Clip(FltSub(FltOne,
                    FltDiv(Clip(CoeffOfVariation(
                                    [t \in 1..Len(vvs) |->
                                        FltDiv(vhs[t][px], FltMax(vvs[t][px], Eps))]),
                                FltZero, FltInt(2)),
                           FltInt(2))),
             FltZero, FltOne)]

\* _coherence_proxy
CoherenceProxy(vvs) ==
    [px \in DOMAIN vvs[1] |->
        Clip(FltSub(FltOne,
                    Clip(CoeffOfVariation(
                             [t \in 1..Len(vvs) |-> FltSqrt(FltMax(vvs[t][px], FltZero))]),
                         FltZero, FltOne)),
             FltZero, FltOne)]

\* the months of the four meteorological quarters
Quarters == <<{12, 1, 2}, {3, 4, 5}, {6, 7, 8}, {9, 10, 11}>>

\* the scenes whose month is in quarter q, in order
ScenesOf(time_arr, q) ==
    SelectSeq([t \in 1..Len(time_arr) |-> t], LAMBDA t : time_arr[t].month \in Quarters[q])

\* the mean raster of the scenes of quarter q
QuarterMean(vvs, scenes) ==
    [px \in DOMAIN vvs[1] |-> NanMean([i \in 1..Len(scenes) |-> vvs[scenes[i]][px]])]

\* the quarters that have a scene, however few
QuartersWithScenes(time_arr) ==
    SelectSeq(<<1, 2, 3, 4>>, LAMBDA q : Len(ScenesOf(time_arr, q)) >= 1)

\* the quarters that have three scenes or more
FullQuarters(time_arr) ==
    SelectSeq(<<1, 2, 3, 4>>, LAMBDA q : Len(ScenesOf(time_arr, q)) >= 3)

\* the mean rasters of the quarters qs, stacked
QuarterStack(vvs, time_arr, qs) ==
    [k \in 1..Len(qs) |-> QuarterMean(vvs, ScenesOf(time_arr, qs[k]))]

QuarterMeans(vvs, time_arr) == QuarterStack(vvs, time_arr, FullQuarters(time_arr))

\* the invariance of the stack of the quarter means
InvarianceOf(q_stack, shape) ==
    IF Len(q_stack) < 2 THEN [px \in shape |-> Flt(<<5, 10>>)]
    ELSE [px \in shape |->
            Clip(FltSub(FltOne, Clip(CoeffOfVariation(Series(q_stack, px)), FltZero, FltOne)),
                 FltZero, FltOne)]

\* _seasonal_invariance
SeasonalInvariance(vvs, time_arr) == InvarianceOf(QuarterMeans(vvs, time_arr), DOMAIN vvs[1])

\* the optical indicator of step 3
Optical(anomaly, vi) ==
    [px \in DOMAIN vi |->
        Clip(FltAdd(FltMul(Flt(<<5, 10>>), anomaly[px]),
                    FltMul(Flt(<<5, 10>>),
                           FltSub(FltOne, Clip(vi[px], FltZero, FltOne)))),
             FltZero, FltOne)]

\* step 2 of run(): the seven indicators of the SAR stack
SarIndicators ==
    /\ pc = "s1_stats"
    /\ indicators' =
          [stability |-> Stability(params, vv_mean, vv_std),
           pol_ratio_norm |-> PolRatio(params, vv_mean, vh_mean),
           texture |-> Texture(MeanDb(vv_mean), IntOf(params.texture_kernel_radius)),
           sar_anomaly |-> Anomaly(MeanDb(vv_mean), Flt(params.anomaly_sigma)),
           cross_pol_entropy |-> CrossPolEntropy(vv_stack, vh_stack),
           coherence_proxy |-> CoherenceProxy(vv_stack),
           seasonal_inv |-> SeasonalInvariance(vv_stack, s1_time_arr)]
    /\ pc' = "sar_indicators"
    /\ UNCHANGED <<ctor, error, reads, s1, s2, forest_mask, combined_mask, fusion,
                   probability, confidence, clean_prob>>
    /\ UNCHANGED <<later, monitor>>

\* step 3 of run(), from the index rasters _compute_s2_indices returns
S2Indices(vi, wi, bi) ==
    /\ pc = "sar_indicators"
    /\ ndvi' = vi
    /\ ndwi' = wi
    /\ ndbi' = bi
    /\ ndbi_anomaly' = Anomaly(bi, Flt(params.anomaly_sigma))
    /\ indicators' = [k \in DOMAIN indicators \cup {"optical"} |->
                        IF k = "optical" THEN Optical(ndbi_anomaly', vi)
                        ELSE indicators[k]]
    /\ pc' = "indexed"
    /\ UNCHANGED <<ctor, error, reads, s1, forest_mask, combined_mask, fusion,
                   probability, confidence, clean_prob>>
    /\ UNCHANGED <<later, monitor>>

\* one pixel, scene by scene: the co-polarized power is always 0, always 1,
\* 0 and 2 in turn, or 1 in the first three scenes and 3 after; the
\* cross-polarized power is always 0.1 or always 1e38
PixelSeries ==
    { [vv |-> [t \in 1..NScenes |-> FltZero], vh |-> [t \in 1..NScenes |-> Flt(<<1, 10>>)]],
      [vv |-> [t \in 1..NScenes |-> FltZero],
       vh |-> [t \in 1..NScenes |-> <<MantLo, MaxExp10 - 3>>]],
      [vv |-> [t \in 1..NScenes |-> FltOne], vh |-> [t \in 1..NScenes |-> Flt(<<1, 10>>)]],
      [vv |-> [t \in 1..NScenes |-> IF t % 2 = 1 THEN FltZero ELSE FltInt(2)],
       vh |-> [t \in 1..NScenes |-> Flt(<<1, 10>>)]],
      [vv |-> [t \in 1..NScenes |-> IF t <= 3 THEN FltOne ELSE FltInt(3)],
       vh |-> [t \in 1..NScenes |-> <<MantLo, MaxExp10 - 3>>]] }

\* the times of the scenes: three in January and the others in July, or
\* one a month
TimeArrays ==
    { [t \in 1..NScenes |-> Date(IF t <= 3 THEN 1 ELSE 7, t)],
      [t \in 1..NScenes |-> Date(t, 1)] }

SarImageries ==
    { [s1_bands |-> {"vv", "vh"},
       vv |-> [t \in 1..NScenes |-> [px \in 1..NPix |-> a[px].vv[t]]],
       vh |-> [t \in 1..NScenes |-> [px \in 1..NPix |-> a[px].vh[t]]],
       time |-> tm] :
        a \in [1..NPix -> PixelSeries], tm \in TimeArrays }

\* the Gaussian of the anomaly has sigma = 1; the floor of the stability is
\* the default, above 1, or below 0; the bounds of the polarimetric ratio are
\* the defaults, inverted, or equal
IndicatorOverrides ==
    { [anomaly_kernel_radius |-> <<1, 1>>],
      [anomaly_kernel_radius |-> <<1, 1>>, stability_floor |-> <<15, 10>>,
       pol_ratio_min |-> <<3, 10>>, pol_ratio_max |-> <<2, 100>>],
      [anomaly_kernel_radius |-> <<1, 1>>, stability_floor |-> <<-5, 10>>,
       pol_ratio_min |-> <<2, 100>>, pol_ratio_max |-> <<2, 100>>] }

\* the index rasters of step 3: a uniform vegetation index, and a built-up
\* index that is missing everywhere, missing nowhere, or missing at pixel 1
NdbiRasters ==
    { [px \in 1..NPix |-> NaN], [px \in 1..NPix |-> Flt(<<5, 10>>)],
      [px \in 1..NPix |-> IF px = 1 THEN NaN ELSE Flt(<<5, 10>>)],
      [px \in 1..NPix |-> IF px % 2 = 1 THEN Flt(<<-5, 10>>) ELSE Flt(<<5, 10>>)] }

NextIndicators ==
    \/ \E ov \in IndicatorOverrides, img \in SarImageries : Construct(ov, img)
    \/ ComputeS1Stats
    \/ SarIndicators
    \/ \E v \in {NaN, Flt(<<2, 10>>), Flt(<<8, 10>>)}, bi \in NdbiRasters :
            S2Indices([px \in 1..NPix |-> v], [px \in 1..NPix |-> FltZero], bi)

SpecIndicators == Init /\ [][NextIndicators]_vars

(***************************************************************************)
(* run(), steps 5 and 6: the fusion and the confidence zones.              *)
(***************************************************************************)
Indicators == <<"stability", "pol_ratio_norm", "texture", "sar_anomaly",
                "optical", "cross_pol_entropy", "coherence_proxy", "seasonal_inv">>

\* p["w_..."] * indicator, at one pixel
Term(p, ind, i, px) == FltMul(Flt(p[Weights[i]]), ind[Indicators[i]][px])

\* lines 308-317 at one pixel: the eight products added left to right
FusionAt(p, ind, px) ==
    FltAdd(FltAdd(FltAdd(FltAdd(FltAdd(FltAdd(FltAdd(
        Term(p, ind, 1, px), Term(p, ind, 2, px)), Term(p, ind, 3, px)),
        Term(p, ind, 4, px)), Term(p, ind, 5, px)), Term(p, ind, 6, px)),
        Term(p, ind, 7, px)), Term(p, ind, 8, px))

\* the mutant of MaskedFusion: the fusion as it is, the mask not applied
UnmaskedFusion(mask, fus) == fus

\* np.where(combined_mask, fusion, np.nan)
MaskedFusion(mask, fus) == [px \in DOMAIN fus |-> IF mask[px] THEN fus[px] ELSE NaN]

\* the mutant of ConfidenceOf: the two threshold tests in the other order
ConfidenceOfHighFirst(v, medium, high) ==
    LET c0 == 0
        c1 == IF FltGe(v, high) THEN 3 ELSE c0
        c2 == IF FltGe(v, medium) THEN 2 ELSE c1
    IN  IF IsNaN(v) THEN 0 ELSE c2

\* lines 323-326 at one pixel
ConfidenceOf(v, medium, high) ==
    LET c0 == 0
        c1 == IF FltGe(v, medium) THEN 2 ELSE c0
        c2 == IF FltGe(v, high) THEN 3 ELSE c1
    IN  IF IsNaN(v) THEN 0 ELSE c2

\* steps 1 to 4 of run(), by their results: eight indicator rasters with
\* values in [0, 1] and the combined mask
Steps1To4(ind, mask) ==
    /\ pc = "constructed"
    /\ indicators' = ind
    /\ combined_mask' = mask
    /\ pc' = "masked"
    /\ UNCHANGED <<ctor, error, reads, s1, s2, forest_mask, fusion, probability,
                   confidence, clean_prob>>
    /\ UNCHANGED <<later, monitor>>

\* step 5 of run()
Fuse ==
    /\ pc = "masked"
    /\ fusion' = [px \in DOMAIN combined_mask |-> FusionAt(params, indicators, px)]
    /\ probability' = MaskedFusion(combined_mask, fusion')
    /\ pc' = "fused"
    /\ UNCHANGED <<ctor, error, reads, s1, s2, forest_mask, indicators, combined_mask,
                   confidence, clean_prob>>
    /\ UNCHANGED <<later, monitor>>

\* step 6 of run()
ConfidenceZones ==
    /\ pc = "fused"
    /\ confidence' = [px \in DOMAIN probability |->
            ConfidenceOf(probability[px], Flt(params.thresh_medium), Flt(params.thresh_high))]
    /\ pc' = "zoned"
    /\ UNCHANGED <<ctor, error, reads, s1, s2, forest_mask, fused, clean_prob>>
    /\ UNCHANGED <<later, monitor>>

\* the overrides of the fusion runs: a weight sum of 0.995, 1.0 or 1.005, and
\* thresholds in their usual order, equal, or inverted
FusionOverrides ==
    { [w_stability |-> <<w, 1000>>, thresh_medium |-> <<m, 100>>, thresh_high |-> <<h, 100>>] :
        w \in {175, 180, 185}, m \in {45, 50}, h \in {65, 50, 40} }

\* the values of the eight indicators at one pixel: all at one level, or one
\* indicator apart from the others
Levels == {<<0, 1>>, <<45, 100>>, <<5, 10>>, <<65, 100>>, <<1, 1>>}

IndicatorVectors ==
    { [i \in 1..8 |-> Flt(l)] : l \in Levels }
    \cup { [i \in 1..8 |-> IF i = 1 THEN FltOne ELSE FltZero],
           [i \in 1..8 |-> IF i = 1 THEN FltZero ELSE FltOne] }

IndicatorInputs ==
    { [k \in 1..8 |-> [px \in 1..NPix |-> v[px][k]]] : v \in [1..NPix -> IndicatorVectors] }

\* the record of the eight rasters, by name
Named(rs) ==
    [stability |-> rs[1], pol_ratio_norm |-> rs[2], texture |-> rs[3], sar_anomaly |-> rs[4],
     optical |-> rs[5], cross_pol_entropy |-> rs[6], coherence_proxy |-> rs[7],
     seasonal_inv |-> rs[8]]

\* the indicator rasters of the fusion runs, by name
NamedInputs == { Named(rs) : rs \in IndicatorInputs }

NextFusion ==
    \/ \E ov \in FusionOverrides : Construct(ov, PlainImagery)
    \/ \E ind \in NamedInputs, mask \in [1..NPix -> BOOLEAN] : Steps1To4(ind, mask)
    \/ Fuse
    \/ ConfidenceZones

SpecFusion == Init /\ [][NextFusion]_vars

(***************************************************************************)
(* run(), step 4: the forest mask.                                         *)
(***************************************************************************)
\* the mutant of ForestMask: a water index equal to its threshold passes
ForestMaskWaterInclusive(p, vi, wi) ==
    [px \in DOMAIN vi |->
        /\ FltGe(vi[px], Flt(p.forest_ndvi_threshold))
        /\ FltLe(wi[px], Flt(p.water_ndwi_threshold))]

\* _forest_mask
ForestMask(p, vi, wi) ==
    [px \in DOMAIN vi |->
        /\ FltGe(vi[px], Flt(p.forest_ndvi_threshold))
        /\ FltLt(wi[px], Flt(p.water_ndwi_threshold))]

\* steps 1 to 3 of run(), by the index rasters step 3 returns: values clipped
\* to [-1, 1], or NaN
Steps1To3(vi, wi, bi) ==
    /\ pc = "constructed"
    /\ ndvi' = vi
    /\ ndwi' = wi
    /\ ndbi' = bi
    /\ pc' = "indexed"
    /\ UNCHANGED <<ctor, error, reads, s1, ndbi_anomaly, forest_mask, fused, confidence,
                   clean_prob>>
    /\ UNCHANGED <<later, monitor>>

\* step 4 of run(), the forest mask
ForestMaskStep ==
    /\ pc = "indexed"
    /\ forest_mask' = ForestMask(params, ndvi, ndwi)
    /\ pc' = "forest_masked"
    /\ UNCHANGED <<ctor, error, reads, s1, s2, fused, confidence, clean_prob>>
    /\ UNCHANGED <<later, monitor>>

MaskOverrides ==
    { << >>, [forest_ndvi_threshold |-> <<2, 10>>, water_ndwi_threshold |-> <<5, 10>>],
      [forest_ndvi_threshold |-> <<8, 10>>, water_ndwi_threshold |-> <<-1, 10>>] }

NdviValues == {NaN, Flt(<<2, 10>>), Flt(<<55, 100>>), Flt(<<8, 10>>)}
NdwiValues == {NaN, Flt(<<-1, 10>>), Flt(<<15, 100>>), Flt(<<5, 10>>)}

NextMasks ==
    \/ \E ov \in MaskOverrides : Construct(ov, PlainImagery)
    \/ \E vi \in [1..NPix -> NdviValues], wi \in [1..NPix -> NdwiValues] :
            Steps1To3(vi, wi, [px \in 1..NPix |-> FltZero])
    \/ ForestMaskStep

SpecMasks == Init /\ [][NextMasks]_vars

(***************************************************************************)
(* run(), step 4: the three masks and their conjunction.                   *)
(***************************************************************************)
\* the mutant of CombinedMask: the slope mask left out
CombinedMaskNoSlope(validity, forest, slope) ==
    [px \in DOMAIN validity |-> validity[px] /\ forest[px]]

\* validity_mask & forest_mask & slope_mask
CombinedMask(validity, forest, slope) ==
    [px \in DOMAIN validity |-> validity[px] /\ forest[px] /\ slope[px]]

\* steps 1 to 3 of run(), by the rasters they leave: the eight indicators
\* and the vegetation and water indices
Steps1To3With(ind, vi, wi) ==
    /\ pc = "constructed"
    /\ indicators' = ind
    /\ ndvi' = vi
    /\ ndwi' = wi
    /\ pc' = "indexed"
    /\ UNCHANGED <<ctor, error, reads, s1, ndbi, ndbi_anomaly, forest_mask, combined_mask,
                   fusion, probability, confidence, clean_prob, later, monitor>>

\* step 4 of run(); the validity and the slope masks by their results
BuildMasks(validity, slope) ==
    /\ pc = "indexed"
    /\ validity_mask' = validity
    /\ forest_mask' = ForestMask(params, ndvi, ndwi)
    /\ slope_mask' = slope
    /\ combined_mask' = CombinedMask(validity_mask', forest_mask', slope_mask')
    /\ pc' = "masked"
    /\ UNCHANGED <<ctor, error, reads, s1, s2, indicators, fusion, probability, confidence,
                   clean_prob, vector, owner, monitor>>

\* the indicators at one pixel: all 0.5, all 1.0, or the stability missing;
\* the indices at one pixel: forest, bare ground, or missing
MaskedPixels ==
    { [ind |-> i, vi |-> v[1], wi |-> v[2]] :
        i \in { [k \in 1..8 |-> Flt(<<5, 10>>)], [k \in 1..8 |-> FltOne],
                [k \in 1..8 |-> IF k = 1 THEN NaN ELSE FltOne] },
        v \in { <<Flt(<<8, 10>>), Flt(<<-1, 10>>)>>, <<Flt(<<2, 10>>), Flt(<<-1, 10>>)>>,
                <<NaN, NaN>> } }

NextCombined ==
    \/ Construct(<< >>, PlainImagery)
    \/ \E m \in [1..NPix -> MaskedPixels] :
            Steps1To3With(Named([k \in 1..8 |-> [px \in 1..NPix |-> m[px].ind[k]]]),
                          [px \in 1..NPix |-> m[px].vi], [px \in 1..NPix |-> m[px].wi])
    \/ \E validity \in [1..NPix -> BOOLEAN], slope \in [1..NPix -> BOOLEAN] :
            BuildMasks(validity, slope)
    \/ Fuse

SpecCombined == Init /\ [][NextCombined]_vars

(***************************************************************************)
(* run(), step 7: the morphological opening.                               *)
(***************************************************************************)
\* the 3 x 3 window centred on px
Window(px) == { <<px[1] + dr, px[2] + dc>> : dr \in {-1, 0, 1}, dc \in {-1, 0, 1} }

\* the value of a binary raster at q, 0 outside the grid (border_value = 0)
At(b, q) == q \in DOMAIN b /\ b[q]

\* binary_erosion(b, structure = ones((3, 3)), iterations = 1)
BinaryErosion(b) == [px \in DOMAIN b |-> \A q \in Window(px) : At(b, q)]

\* binary_dilation(b, structure = ones((3, 3)), iterations = 1)
BinaryDilation(b) == [px \in DOMAIN b |-> \E q \in Window(px) : At(b, q)]

\* the mutant of MorphologicalOpen: the erosion alone, without the dilation
MorphologicalErode(prob, threshold) ==
    LET binary == [px \in DOMAIN prob |-> ~ IsNaN(prob[px]) /\ FltGe(prob[px], threshold)]
        eroded == BinaryErosion(binary)
    IN  [px \in DOMAIN prob |-> IF eroded[px] THEN prob[px] ELSE NaN]

\* _morphological_open, iterations = 1
MorphologicalOpen(prob, threshold) ==
    LET binary == [px \in DOMAIN prob |-> ~ IsNaN(prob[px]) /\ FltGe(prob[px], threshold)]
        eroded == BinaryErosion(binary)
        dilated == BinaryDilation(eroded)
    IN  [px \in DOMAIN prob |-> IF dilated[px] THEN prob[px] ELSE NaN]

\* steps 1 to 6 of run(), by the probability raster they leave
Steps1To6(prob) ==
    /\ pc = "constructed"
    /\ probability' = prob
    /\ pc' = "zoned"
    /\ UNCHANGED <<ctor, error, reads, s1, s2, forest_mask, indicators, combined_mask, fusion,
                   confidence, clean_prob>>
    /\ UNCHANGED <<later, monitor>>

\* step 7 of run()
MorphologicalOpenStep ==
    /\ pc = "zoned"
    /\ clean_prob' = MorphologicalOpen(probability, Flt(params.thresh_medium))
    /\ pc' = "opened"
    /\ UNCHANGED <<ctor, error, reads, s1, s2, forest_mask, fused, confidence>>
    /\ UNCHANGED <<later, monitor>>

Grid == (1..GridSize) \X (1..GridSize)

\* a raster with a rectangle at or above the threshold 0.45 on a background
\* of 0.2
Block(r0, r1, c0, c1) ==
    [px \in Grid |->
        IF px[1] \in r0..r1 /\ px[2] \in c0..c1 THEN Flt(<<8, 10>>) ELSE Flt(<<2, 10>>)]

\* the probability rasters of the opening: a rectangle, whole or with one
\* pixel replaced by a missing value, a value below the threshold, or the
\* threshold itself
ProbabilityRasters ==
    LET blocks == { Block(r0, r1, c0, c1) :
                        r0 \in 1..GridSize, r1 \in 1..GridSize,
                        c0 \in 1..GridSize, c1 \in 1..GridSize }
    IN  blocks \cup
        { [b EXCEPT ![<<d, d>>] = v] :
            b \in blocks, d \in 1..GridSize,
            v \in {NaN, Flt(<<2, 10>>), Flt(<<45, 100>>)} }

NextOpen ==
    \/ \E ov \in {<< >>, [thresh_medium |-> <<5, 10>>]} :
            Construct(ov, PlainImagery)
    \/ \E prob \in ProbabilityRasters : Steps1To6(prob)
    \/ MorphologicalOpenStep

SpecOpen == Init /\ [][NextOpen]_vars

(***************************************************************************)
(* run(), step 8: the vectorisation of the cleaned probability.  A polygon *)
(* is kept as the set of the pixels it covers; the pixel in row r and      *)
(* column c (counted from 1) covers the square whose upper left corner is  *)
(* (c - 1, r - 1) in pixel units.                                          *)
(***************************************************************************)
\* _get_geotransform: the affine transform from the x and y coordinates of
\* the SAR stack (pixel centres, y descending)
GetGeotransform(img) ==
    LET res_x == IF Len(img.x) > 1 THEN img.x[2] - img.x[1] ELSE 10
        res_y == IF Len(img.y) > 1 THEN img.y[2] - img.y[1] ELSE -10
    IN  [a |-> Abs(res_x), e |-> -Abs(res_y),
         c |-> img.x[1] - res_x \div 2, f |-> img.y[1] - res_y \div 2]

\* the mutant of Neighbours4: the full 3 x 3 structuring element, which joins
\* pixels that touch at a corner
Neighbours8(px) ==
    { <<px[1] + dr, px[2] + dc>> : dr \in {-1, 0, 1}, dc \in {-1, 0, 1} } \ {px}

\* the structuring element of ndi_label: the four edge neighbours
Neighbours4(px) ==
    { <<px[1] - 1, px[2]>>, <<px[1] + 1, px[2]>>, <<px[1], px[2] - 1>>, <<px[1], px[2] + 1>> }

\* the pixels of "seen" and those of their neighbours that are in "on"
Grown(seen, on) == seen \cup (on \cap UNION { Neighbours4(p) : p \in seen })

RECURSIVE Flood(_, _)
\* the pixels of "on" connected to the pixels of "seen"
Flood(seen, on) == IF Grown(seen, on) = seen THEN seen ELSE Flood(Grown(seen, on), on)

\* the position of a pixel in the row-major scan of the raster
ScanOrder(px) == px[1] * 1000 + px[2]

\* the first pixel of a set in scan order
FirstPixel(set) == CHOOSE p \in set : \A q \in set : ScanOrder(p) <= ScanOrder(q)

RECURSIVE RowMajor(_)
\* the pixels of a set in scan order
RowMajor(set) ==
    IF set = {} THEN << >>
    ELSE <<FirstPixel(set)>> \o RowMajor(set \ {FirstPixel(set)})

RECURSIVE Regions(_)
\* a labelled component, followed by the components of the other pixels
RegionsFrom(first, on) == <<first>> \o Regions(on \ first)

\* ndi_label(binary) and regionprops: the connected components by
\* ascending label; ndi_label numbers them in the order the scan meets them
Regions(on) == IF on = {} THEN << >> ELSE RegionsFrom(Flood({FirstPixel(on)}, on), on)

\* the larger of two values, a NaN passed over
Larger(a, b) == IF IsNaN(a) THEN b ELSE IF IsNaN(b) \/ FltLt(b, a) THEN a ELSE b

RECURSIVE NanMax(_)
\* np.nanmax of a sequence with a value that is not NaN
NanMax(s) == IF Len(s) = 1 THEN s[1] ELSE Larger(s[1], NanMax(SubSeq(s, 2, Len(s))))

\* round(x, nd) of a float: to nd decimals, ties to even
Round(x, nd) ==
    IF ~ IsFinite(x) \/ x[2] >= -nd THEN x
    ELSE LET k == -nd - x[2]
             a == Abs(x[1])
             q == IF k > 4 THEN 0 ELSE a \div Pow10(k)
             r == IF k > 4 THEN a ELSE a % Pow10(k)
             h == IF k > 4 THEN Pow10(4) ELSE Pow10(k)
             up == 2 * r > h \/ (2 * r = h /\ q % 2 = 1)
         IN  FltNorm(Sign(x[1]) * (IF up /\ k <= 4 THEN q + 1 ELSE q), -nd, 0)

\* area_m2 < min_area, min_area the literal n/den
AreaBelow(area_m2, min_area) == area_m2 * min_area[2] < min_area[1]

RawColumns == <<"geometry", "area_m2", "prob_mean", "prob_max">>

\* the mutant of EmptyTable: no table at all
NoTable(columns) == None

\* gpd.GeoDataFrame(columns = ..., geometry = "geometry").set_crs(...)
EmptyTable(columns) == [columns |-> columns, rows |-> << >>]

\* the record of one region (lines 764-788)
RawRecord(clean, tr, region) ==
    LET pixs == [i \in 1..Cardinality(region) |-> clean[RowMajor(region)[i]]]
    IN  [geometry |-> region,
         area_m2 |-> Cardinality(region) * Abs(tr.a * tr.e),
         prob_mean |-> Round(NanMean(pixs), 4),
         prob_max |-> Round(NanMax(pixs), 4)]

\* the records of the regions whose area is not below min_area
RawRecords(clean, tr, regions, min_area) ==
    SelectSeq([i \in 1..Len(regions) |-> RawRecord(clean, tr, regions[i])],
              LAMBDA rec : ~ AreaBelow(rec.area_m2, min_area))

\* the table of the records, the empty table when there is none
TableOf(columns, records) ==
    IF Len(records) = 0 THEN EmptyTable(columns) ELSE [columns |-> columns, rows |-> records]

\* binary = (~np.isnan(clean_prob)) & (clean_prob >= threshold)
Binary(clean, threshold) ==
    { px \in DOMAIN clean : ~ IsNaN(clean[px]) /\ FltGe(clean[px], threshold) }

\* _extract_footprints
ExtractFootprints(clean, tr, threshold, min_area) ==
    TableOf(RawColumns, RawRecords(clean, tr, Regions(Binary(clean, threshold)), min_area))

(***************************************************************************)
(* run(), step 9: the regularisation of the raw footprints.  The regions   *)
(* of the model are rectangles of pixels (RegionsAreRectangles): the       *)
(* convex hull and the minimum rotated rectangle of such a polygon are the *)
(* polygon itself.  Positions along a boundary are in quarter pixels from  *)
(* the upper left corner of the raster, (pt.x - transform.c) / transform.a *)
(* and (pt.y - transform.f) / transform.e taken exactly.                   *)
(***************************************************************************)
\* the rows and the columns a region spans
BoundingBox(region) ==
    [r0 |-> CHOOSE r \in {p[1] : p \in region} : \A p \in region : r <= p[1],
     r1 |-> CHOOSE r \in {p[1] : p \in region} : \A p \in region : r >= p[1],
     c0 |-> CHOOSE c \in {p[2] : p \in region} : \A p \in region : c <= p[2],
     c1 |-> CHOOSE c \in {p[2] : p \in region} : \A p \in region : c >= p[2]]

BoxHeight(box) == box.r1 - box.r0 + 1
BoxWidth(box) == box.c1 - box.c0 + 1

\* geom.area, in square metres
PolygonArea(region, tr) == Cardinality(region) * Abs(tr.a * tr.e)

\* geom.length, in metres: the pixel edges between the region and the rest
PolygonLength(region, tr) ==
    Cardinality({ e \in region \X {-1, 1} : <<e[1][1] + e[2], e[1][2]>> \notin region }) * tr.a
    + Cardinality({ e \in region \X {-1, 1} : <<e[1][1], e[1][2] + e[2]>> \notin region })
      * Abs(tr.e)

\* np.pi
Pi == Flt(<<3142, 1000>>)

\* (4.0 * np.pi * area) / (perimeter ** 2) if perimeter > 0 else 0.0
Compactness(area, perimeter) ==
    IF perimeter > 0
    THEN FltDiv(FltMul(FltMul(FltInt(4), Pi), FltInt(area)), Sq(FltInt(perimeter)))
    ELSE FltZero

\* geom.convex_hull.area and geom.minimum_rotated_rectangle.area
BoxArea(box, tr) == BoxHeight(box) * BoxWidth(box) * Abs(tr.a * tr.e)

\* area / max(ch.area, 1e-10)
Solidity(area, hull_area) == FltDiv(FltInt(area), FltMax(FltInt(hull_area), Eps))

\* area / (mrr.area if mrr.area > 0 else 1e-10)
Rectangularity(area, mrr_area) ==
    FltDiv(FltInt(area), IF mrr_area > 0 THEN FltInt(mrr_area) ELSE Eps)

\* the lengths of the four edges of the rectangle, sorted
EdgeLens(box, tr) ==
    LET across == BoxWidth(box) * tr.a
        down == BoxHeight(box) * Abs(tr.e)
    IN  IF across <= down THEN <<across, across, down, down>>
        ELSE <<down, down, across, across>>

\* edge_lens[-1] / max(edge_lens[0], 0.01)
AspectRatio(edge_lens) ==
    FltDiv(FltInt(edge_lens[4]), FltMax(FltInt(edge_lens[1]), Flt(<<1, 100>>)))

\* boundary.interpolate: the point at q quarter pixels along the exterior
\* ring, which starts at the upper left corner and runs down the left side,
\* along the bottom, up the right side and back along the top
RingPoint(box, q) ==
    LET down == 4 * BoxHeight(box)
        across == 4 * BoxWidth(box)
        left == 4 * (box.c0 - 1)
        top == 4 * (box.r0 - 1)
    IN  IF q < down THEN <<left, top + q>>
        ELSE IF q < down + across THEN <<left + (q - down), top + down>>
        ELSE IF q < 2 * down + across THEN <<left + across, top + down - (q - down - across)>>
        ELSE <<left + across - (q - 2 * down - across), top>>

\* the length of the ring, in quarter pixels
RingLength(box) == 8 * (BoxHeight(box) + BoxWidth(box))

\* geom.centroid
Centroid(box) == <<2 * (box.c0 - 1 + box.c1), 2 * (box.r0 - 1 + box.r1)>>

\* <<r_idx + 1, c_idx + 1>>: the pixel that int() gives for a point
PixelAt(pt) == <<pt[2] \div 4 + 1, pt[1] \div 4 + 1>>

\* np.nan_to_num(raster, nan = 0.0)
NanToNum(raster) == [px \in DOMAIN raster |-> IF IsNaN(raster[px]) THEN FltZero ELSE raster[px]]

Height(raster) == Cardinality({ px[1] : px \in DOMAIN raster })
Width(raster) == Cardinality({ px[2] : px \in DOMAIN raster })

\* np.gradient along one axis at position i of n: central differences
\* inside, one-sided differences at the two ends
Difference(before, here, after, i, n) ==
    IF i = 1 THEN FltSub(after, here)
    ELSE IF i = n THEN FltSub(here, before)
    ELSE FltDiv(FltSub(after, before), FltInt(2))

\* the value of a raster at a pixel, 0.0 for a pixel that np.gradient does
\* not read
Read(raster, px) == IF px \in DOMAIN raster THEN raster[px] ELSE FltZero

\* grad_mag[r_idx, c_idx] = sqrt(gx ** 2 + gy ** 2)
GradMag(raster, px) ==
    FltSqrt(FltAdd(
        Sq(Difference(Read(raster, <<px[1], px[2] - 1>>), raster[px],
                      Read(raster, <<px[1], px[2] + 1>>), px[2], Width(raster))),
        Sq(Difference(Read(raster, <<px[1] - 1, px[2]>>), raster[px],
                      Read(raster, <<px[1] + 1, px[2]>>), px[1], Height(raster)))))

\* n_pts = max(int(boundary.length / abs(transform.a)), 8)
NumPoints(perimeter, tr) ==
    IF perimeter \div Abs(tr.a) > 8 THEN perimeter \div Abs(tr.a) ELSE 8

\* the pixels under the n points np.linspace(0, 1, n, endpoint = False) of
\* the boundary, those outside the raster left out
SampledPixels(box, n, raster) ==
    SelectSeq([k \in 1..n |-> PixelAt(RingPoint(box, ((k - 1) * RingLength(box)) \div n))],
              LAMBDA px : px \in DOMAIN raster)

\* sharp_sum / max(n_valid, 1) over the sampled pixels
SharpnessOver(pixels, prob_clean) ==
    FltDiv(FltSum([i \in 1..Len(pixels) |-> GradMag(prob_clean, pixels[i])]),
           FltInt(IF Len(pixels) > 1 THEN Len(pixels) ELSE 1))

\* edge_sharpness: the mean gradient magnitude under n points of the boundary
EdgeSharpness(box, n, prob_clean) == SharpnessOver(SampledPixels(box, n, prob_clean), prob_clean)

\* the pixel under the centroid, when it is inside the raster
CentrePixel(box, raster) ==
    IF PixelAt(Centroid(box)) \in DOMAIN raster THEN <<PixelAt(Centroid(box))>> ELSE << >>

\* float(np.mean(ndwi_vals)) if ndwi_vals else 0.0
MeanOver(pixels, ndwi_clean) ==
    IF Len(pixels) = 0 THEN FltZero
    ELSE FltDiv(FltSum([i \in 1..Len(pixels) |-> ndwi_clean[pixels[i]]]), FltInt(Len(pixels)))

\* ndwi_mean: the mean of ndwi_clean at the centroid and at eight points of
\* the boundary, 0.0 when no sample falls inside the raster
NdwiMean(box, ndwi_clean) ==
    MeanOver(CentrePixel(box, ndwi_clean) \o SampledPixels(box, 8, ndwi_clean), ndwi_clean)

\* the measures of one raw footprint (lines 866-922)
MeasuresOf(region, box, area, perimeter, prob_clean, ndwi_clean, tr) ==
    [area |-> area,
     compactness |-> Compactness(area, perimeter),
     solidity |-> Solidity(area, BoxArea(box, tr)),
     rectangularity |-> Rectangularity(area, BoxArea(box, tr)),
     aspect_ratio |-> AspectRatio(EdgeLens(box, tr)),
     edge_sharpness |-> EdgeSharpness(box, NumPoints(perimeter, tr), prob_clean),
     ndwi_mean |-> NdwiMean(box, ndwi_clean)]

Measures(region, prob_clean, ndwi_clean, tr) ==
    MeasuresOf(region, BoundingBox(region), PolygonArea(region, tr),
               PolygonLength(region, tr), prob_clean, ndwi_clean, tr)

\* min(x / full, 1.0)
Capped(x, full) == FltMin(FltDiv(x, full), FltOne)

\* size_score, from the area of the row in square metres
SizeScore(a_m2) ==
    IF a_m2 < 30 THEN Flt(<<1, 10>>)
    ELSE IF a_m2 <= 5000 THEN FltOne
    ELSE IF a_m2 <= 20000
         THEN FltMax(FltZero,
                     FltSub(FltOne, FltDiv(FltSub(FltInt(a_m2), FltInt(5000)), FltInt(15000))))
    ELSE FltZero

\* the mutant of WaterScore: the penalty taken from -ndwi_mean
WaterScoreInverted(ndwi_mean) ==
    FltMax(FltZero, FltSub(FltOne, FltMul(FltMax(FltNeg(ndwi_mean), FltZero), FltInt(5))))

\* water_score = max(0.0, 1.0 - max(ndwi_mean, 0.0) * 5.0)
WaterScore(ndwi_mean) ==
    FltMax(FltZero, FltSub(FltOne, FltMul(FltMax(ndwi_mean, FltZero), FltInt(5))))

\* building_score: the seven weighted components added left to right
BuildingScore(rect, compact, solid, edge, size, prob, water) ==
    FltAdd(FltAdd(FltAdd(FltAdd(FltAdd(FltAdd(
        FltMul(Flt(<<18, 100>>), rect), FltMul(Flt(<<14, 100>>), compact)),
        FltMul(Flt(<<14, 100>>), solid)), FltMul(Flt(<<13, 100>>), edge)),
        FltMul(Flt(<<13, 100>>), size)), FltMul(Flt(<<12, 100>>), prob)),
        FltMul(Flt(<<16, 100>>), water))

\* the building score of a raw row with measures m, for a water score
ScoreWithWater(row, m, water) ==
    BuildingScore(Capped(m.rectangularity, Flt(<<70, 100>>)),
                  Capped(m.compactness, Flt(<<50, 100>>)),
                  Capped(m.solidity, Flt(<<75, 100>>)),
                  FltMin(FltMul(m.edge_sharpness, FltInt(10)), FltOne),
                  SizeScore(row.area_m2),
                  Capped(row.prob_mean, Flt(<<60, 100>>)),
                  water)

ScoreOf(row, m) == ScoreWithWater(row, m, WaterScore(m.ndwi_mean))

\* the mutant of Rejected: the filter on the building score left out
RejectedByShapeOnly(m, score, p) ==
    \/ m.area * p.max_footprint_area[2] > p.max_footprint_area[1]
    \/ FltLt(m.compactness, Flt(p.min_compactness))
    \/ FltGt(m.aspect_ratio, Flt(p.max_aspect_ratio))
    \/ FltLt(m.solidity, Flt(p.min_solidity))

\* the multi-criteria hard filter (lines 956-965)
Rejected(m, score, p) ==
    \/ m.area * p.max_footprint_area[2] > p.max_footprint_area[1]
    \/ FltLt(m.compactness, Flt(p.min_compactness))
    \/ FltGt(m.aspect_ratio, Flt(p.max_aspect_ratio))
    \/ FltLt(m.solidity, Flt(p.min_solidity))
    \/ FltLt(score, Flt(p.min_building_score))

\* the rule of is_rectangular with the tests of the compactness and of the
\* aspect ratio left out
IsRectangularByAreaOnly(m, p) == FltGt(m.rectangularity, Flt(p.min_rectangularity))

\* is_rectangular
IsRectangular(m, p) ==
    /\ FltGt(m.rectangularity, Flt(p.min_rectangularity))
    /\ FltGt(m.compactness, Flt(<<20, 100>>))
    /\ FltLe(FltOne, m.aspect_ratio) /\ FltLe(m.aspect_ratio, FltInt(8))

RegularizedColumns ==
    <<"geometry", "area_m2", "prob_mean", "prob_max", "compactness", "rectangularity",
      "solidity", "aspect_ratio", "edge_sharpness", "ndwi_mean", "building_score",
      "is_rectangular">>

\* the record of a footprint that passed the filter (lines 968-988); its
\* geometry is the minimum rotated rectangle or the convex hull
RegularizedRecord(row, m, score, p) ==
    [geometry |-> [kind |-> IF IsRectangular(m, p) THEN "mrr" ELSE "hull",
                   box |-> BoundingBox(row.geometry)],
     area_m2 |-> row.area_m2,
     prob_mean |-> row.prob_mean,
     prob_max |-> row.prob_max,
     compactness |-> Round(m.compactness, 4),
     rectangularity |-> Round(m.rectangularity, 4),
     solidity |-> Round(m.solidity, 4),
     aspect_ratio |-> Round(m.aspect_ratio, 2),
     edge_sharpness |-> Round(m.edge_sharpness, 4),
     ndwi_mean |-> Round(m.ndwi_mean, 4),
     building_score |-> Round(score, 4),
     is_rectangular |-> IsRectangular(m, p)]

\* one raw row, scored: its measures and its building score
Scored(row, m) == [row |-> row, m |-> m, score |-> ScoreOf(row, m)]

\* the raw rows, scored, in the order of the table
ScoredRows(rows, prob_clean, ndwi_clean, tr) ==
    [i \in 1..Len(rows) |->
        Scored(rows[i], Measures(rows[i].geometry, prob_clean, ndwi_clean, tr))]

\* the scored rows that the hard filter lets through
Passed(scored, p) == SelectSeq(scored, LAMBDA s : ~ Rejected(s.m, s.score, p))

\* the records of the scored rows
RecordsOf(passed, p) ==
    [i \in 1..Len(passed) |->
        RegularizedRecord(passed[i].row, passed[i].m, passed[i].score, p)]

\* the records of the rows that pass the filter, in the order of the rows
RegularizedRecords(rows, prob_clean, ndwi_clean, tr, p) ==
    RecordsOf(Passed(ScoredRows(rows, prob_clean, ndwi_clean, tr), p), p)

\* the mutant of SortValues: the records left in the order of the raw rows
Unsorted(records) == { records }

\* gdf.sort_values("building_score", ascending = False): the records by
\* descending score; the order of records of equal score is not specified
SortValues(records) ==
    { [i \in 1..Len(records) |-> records[f[i]]] :
        f \in { g \in [1..Len(records) -> 1..Len(records)] :
                  /\ \A i, j \in 1..Len(records) : i # j => g[i] # g[j]
                  /\ \A i \in 1..Len(records) - 1 :
                        FltGe(records[g[i]].building_score, records[g[i + 1]].building_score) } }

\* the tables of the records: the empty table when there is none, else the
\* records sorted by descending score
SortedTables(records) ==
    IF Len(records) = 0 THEN { EmptyTable(RegularizedColumns) }
    ELSE { [columns |-> RegularizedColumns, rows |-> sorted] : sorted \in SortValues(records) }

\* _regularize_footprints: the tables it may return
RegularizeFootprints(table, prob, wi, tr, p) ==
    IF Len(table.rows) = 0 THEN { EmptyTable(RegularizedColumns) }
    ELSE SortedTables(RegularizedRecords(table.rows, NanToNum(prob), NanToNum(wi), tr, p))

\* steps 2 and 3 of run(), by the rasters they leave: the eight indicators
\* and the three indices
Steps2To3(ind, vi, wi, bi) ==
    /\ pc = "s1_stats"
    /\ indicators' = ind
    /\ ndvi' = vi
    /\ ndwi' = wi
    /\ ndbi' = bi
    /\ pc' = "indexed"
    /\ UNCHANGED <<ctor, error, reads, s1, ndbi_anomaly, forest_mask, combined_mask,
                   fusion, probability, confidence, clean_prob, later, monitor>>

\* step 8 of run()
ExtractFootprintsStep ==
    /\ pc = "opened"
    /\ transform' = GetGeotransform(imagery)
    /\ footprints' = ExtractFootprints(clean_prob, transform', Flt(params.thresh_medium),
                                       params.min_footprint_area)
    /\ pc' = "vectorised"
    /\ UNCHANGED <<ctor, error, reads, rasters, masks, regularized, result, owner, monitor>>

\* step 9 of run()
RegularizeFootprintsStep ==
    /\ pc = "vectorised"
    /\ footprints # None
    /\ regularized' \in RegularizeFootprints(footprints, probability, ndwi, transform, params)
    /\ pc' = "regularized"
    /\ UNCHANGED <<ctor, error, reads, rasters, masks, transform, footprints, result, owner,
                   monitor>>

\* AnalysisResult(...): the fields of the result, from the names of run()
AnalysisResult ==
    [probability |-> probability,
     confidence |-> confidence,
     cleaned_prob |-> clean_prob,
     stability |-> indicators.stability,
     pol_ratio_norm |-> indicators.pol_ratio_norm,
     texture |-> indicators.texture,
     sar_anomaly |-> indicators.sar_anomaly,
     optical_indicator |-> indicators.optical,
     cross_pol_entropy |-> indicators.cross_pol_entropy,
     coherence_proxy |-> indicators.coherence_proxy,
     seasonal_invariance |-> indicators.seasonal_inv,
     validity_mask |-> validity_mask,
     ndvi |-> ndvi,
     ndwi |-> ndwi,
     ndbi |-> ndbi,
     forest_mask |-> forest_mask,
     slope_mask |-> slope_mask,
     footprints |-> footprints,
     regularized_footprints |-> regularized,
     s1_scene_count |-> imagery.s1_count,
     transform |-> transform,
     height |-> Height(probability),
     width |-> Width(probability),
     params |-> params]

\* the mutant of Returned: the result is handed out before the footprints
\* are regularized
ReturnedEarly(at) == at \in {"vectorised", "regularized"}

\* run() has reached its return statement
Returned(at) == at = "regularized"

\* the end of run(): the result is built, summarised and returned
Return ==
    /\ Returned(pc)
    /\ result' = AnalysisResult
    /\ pc' = "returned"
    /\ UNCHANGED <<ctor, error, reads, rasters, masks, transform, footprints, regularized,
                   owner, monitor>>

\* the rasters of the vector runs are VectorSize x VectorSize
VectorGrid == (1..VectorSize) \X (1..VectorSize)

\* a SAR stack of one scene on the vector grid, with pixels of res metres
GridImagery(res, bands) ==
    [s1_bands |-> bands,
     vv |-> << [px \in VectorGrid |-> FltOne] >>,
     vh |-> << [px \in VectorGrid |-> FltOne] >>,
     time |-> <<Date(1, 1)>>,
     x |-> [c \in 1..VectorSize |-> res * c - res \div 2],
     y |-> [r \in 1..VectorSize |-> res * (VectorSize - r) + res \div 2],
     s1_count |-> 1]

\* a rectangle of pixels at one level
Patch(r0, r1, c0, c1, level) == [r0 |-> r0, r1 |-> r1, c0 |-> c0, c1 |-> c1, level |-> level]

\* the level of the patch that covers px, 0.2 where there is none
LevelAt(patches, px) ==
    LET covering == { i \in DOMAIN patches :
                        /\ px[1] \in patches[i].r0..patches[i].r1
                        /\ px[2] \in patches[i].c0..patches[i].c1 }
    IN  IF covering = {} THEN Flt(<<2, 10>>)
        ELSE Flt(patches[CHOOSE i \in covering : TRUE].level)

\* the layouts of the vector runs: nothing, one pixel, a 5 x 5 block, and
\* pairs of blocks three pixels high, at 0.5 or 0.8, on a background of 0.2
Layouts ==
    { << >>,
      <<Patch(4, 4, 4, 4, <<8, 10>>)>>,
      <<Patch(2, 6, 2, 6, <<8, 10>>)>>,
      <<Patch(1, 3, 1, 3, <<5, 10>>), Patch(5, 7, 5, 7, <<8, 10>>)>>,
      <<Patch(1, 3, 1, 7, <<8, 10>>), Patch(5, 7, 1, 3, <<5, 10>>)>>,
      <<Patch(1, 3, 1, 5, <<8, 10>>), Patch(5, 7, 5, 7, <<8, 10>>)>>,
      <<Patch(1, 3, 1, 3, <<8, 10>>), Patch(5, 7, 5, 7, <<8, 10>>)>> }

\* the eight indicators all at the level of the layout
LayoutIndicators(patches) ==
    Named([k \in 1..8 |-> [px \in VectorGrid |-> LevelAt(patches, px)]])

\* the indicators of the vector runs
IndicatorLayouts == { LayoutIndicators(patches) : patches \in Layouts }

Uniform(v) == [px \in VectorGrid |-> v]

\* the water index of the vector runs, the same at every pixel
NdwiLevels == { Flt(<<-1, 10>>), Flt(<<1, 10>>), Flt(<<3, 10>>) }

\* the slope mask of the vector runs: flat everywhere, or steep in the last
\* column of the layouts
SlopeMasks == { Uniform(TRUE), [px \in VectorGrid |-> px[2] # 7] }

\* the overrides of the vector runs: one threshold of the footprint filters
\* moved at a time
VectorOverrides ==
    { << >>,
      [min_footprint_area |-> <<850, 1>>],
      [min_footprint_area |-> <<900, 1>>],
      [min_footprint_area |-> <<950, 1>>],
      [max_footprint_area |-> <<2000, 1>>],
      [min_compactness |-> <<7, 10>>],
      [max_aspect_ratio |-> <<2, 1>>],
      [min_solidity |-> <<15, 10>>],
      [min_building_score |-> <<95, 100>>],
      [water_ndwi_threshold |-> <<5, 10>>],
      [water_ndwi_threshold |-> <<5, 10>>, min_building_score |-> <<9, 10>>] }

VectorImageries ==
    { GridImagery(10, {"vv", "vh"}), GridImagery(20, {"vv", "vh"}),
      GridImagery(10, {"hh", "hv"}) }

NextVector ==
    \/ \E ov \in VectorOverrides, img \in VectorImageries : Construct(ov, img)
    \/ ComputeS1Stats
    \/ \E ind \in IndicatorLayouts, w \in NdwiLevels :
            Steps2To3(ind, Uniform(Flt(<<8, 10>>)), Uniform(w), Uniform(FltZero))
    \/ \E slope \in SlopeMasks : BuildMasks(Uniform(TRUE), slope)
    \/ Fuse
    \/ ConfidenceZones
    \/ MorphologicalOpenStep
    \/ ExtractFootprintsStep
    \/ RegularizeFootprintsStep
    \/ Return

SpecVector == Init /\ [][NextVector]_vars

(***************************************************************************)
(* Two analysers: one constructed earlier with overrides of its own, and   *)
(* the analyser whose run() is followed.                                   *)
(***************************************************************************)
\* SubCanopyAnalyser(aoi, imagery, **overrides) for another analyser, before
\* this one is constructed
ConstructEarlier(overrides) ==
    /\ pc = "new"
    /\ other_params = None
    /\ other_params' = AssignParams(default_params, overrides).params
    /\ default_params' = AssignParams(default_params, overrides).DEFAULT_PARAMS
    /\ UNCHANGED <<pc, ctor, error, reads, rasters, masks, vector, caller, monitor>>

\* the overrides of the earlier analyser
EarlierOverrides == { << >>, [min_footprint_area |-> <<900, 1>>] }

\* the overrides of this analyser: none, a threshold, a weight that makes
\* the constructor raise
FrameOverrides == { << >>, [thresh_medium |-> <<5, 10>>], [w_stability |-> <<5, 10>>] }

FrameImageries == { GridImagery(10, {"vv", "vh"}), GridImagery(10, {"hh", "hv"}) }

FrameIndicators ==
    { LayoutIndicators(patches) :
        patches \in { <<Patch(2, 6, 2, 6, <<8, 10>>)>>,
                      <<Patch(1, 3, 1, 3, <<5, 10>>), Patch(5, 7, 5, 7, <<8, 10>>)>> } }

NextFrame ==
    \/ \E ov \in EarlierOverrides : ConstructEarlier(ov)
    \/ \E ov \in FrameOverrides, img \in FrameImageries : Construct(ov, img)
    \/ ComputeS1Stats
    \/ \E ind \in FrameIndicators :
            Steps2To3(ind, Uniform(Flt(<<8, 10>>)), Uniform(Flt(<<-1, 10>>)), Uniform(FltZero))
    \/ BuildMasks(Uniform(TRUE), Uniform(TRUE))
    \/ Fuse
    \/ ConfidenceZones
    \/ MorphologicalOpenStep
    \/ ExtractFootprintsStep
    \/ RegularizeFootprintsStep
    \/ Return

SpecFrame == Init /\ [][NextFrame]_vars

(***************************************************************************)
(* OSMChangeMonitor: the snapshot file, the diff against it and the         *)
(* notifiers.  A feature list is the set of its features, an answer of     *)
(* Overpass holding each element once; the coordinates of a feature, the   *)
(* bounding box and the time of the poll take no part in the diff.         *)
(***************************************************************************)
\* the most features of an answer
MaxFeatures == 2
\* the most notifiers a monitor is given
MaxNotifiers == 2

FeatureTypes == {"node", "way"}
FeatureIds == {1, 2}
TagDicts == {[name |-> "a"], [name |-> "b"]}

\* class OSMFeatureSnapshot: node 1, node 2 and way 1, under either tags
OSMFeatureSnapshot ==
    {f \in [feature_id : FeatureIds, feature_type : FeatureTypes, tags : TagDicts] :
        f.feature_type = "node" \/ f.feature_id = 1}

\* OSMFeatureSnapshot.to_dict
ToDict(f) == [id |-> f.feature_id, type |-> f.feature_type, tags |-> f.tags]

\* OSMFeatureSnapshot.from_dict
FromDict(d) == [feature_id |-> d.id, feature_type |-> d.type, tags |-> d.tags]

\* the key of _compute_diff
FeatureKey(f) == <<f.feature_type, f.feature_id>>

\* the positions of "=" in a string
Equals(s) == {i \in 1..Len(s) : s[i] = "="}
FirstEquals(s) == CHOOSE i \in Equals(s) : \A j \in Equals(s) : i <= j

\* str.partition("=")
Partition(s) ==
    IF Equals(s) = {}
    THEN <<s, << >>, << >>>>
    ELSE <<SubSeq(s, 1, FirstEquals(s) - 1), <<"=">>, SubSeq(s, FirstEquals(s) + 1, Len(s))>>

\* validate_inputs: TRUE when it returns, FALSE when it raises
ValidateInputs(tag) == Len(Partition(tag)[1]) > 0 /\ Len(Partition(tag)[3]) > 0

\* _save_snapshot: the payload written to the file
SaveSnapshot(features) == [features |-> {ToDict(f) : f \in features}]

\* _load_snapshot
LoadSnapshot(payload) == {FromDict(d) : d \in payload.features}

\* a diff that compares whole features, so that a feature whose tags changed
\* is both removed and added
ComputeDiffByValue(previous, current) ==
    [added |-> current \ previous, removed |-> previous \ current]

\* _compute_diff: the features whose (type, id) is new, and those whose
\* (type, id) is gone
ComputeDiff(previous, current) ==
    LET prev_ids == {FeatureKey(f) : f \in previous}
        curr_ids == {FeatureKey(f) : f \in current}
    IN  [added |-> {CHOOSE f \in current : FeatureKey(f) = k : k \in curr_ids \ prev_ids},
         removed |-> {CHOOSE f \in previous : FeatureKey(f) = k : k \in prev_ids \ curr_ids}]

\* ChangeSet.has_changes
HasChanges(change_set) == change_set.added # {} \/ change_set.removed # {}

\* the loop over self.notifiers: every send() is inside try/except, so a
\* failing notifier is logged and the loop goes on
Sent(ns, failing) == [i \in 1..Len(ns) |-> i]
Logged(ns, failing) == failing \cap (1..Len(ns))

\* OSMChangeMonitor(bbox, osm_tag, output_dir, notifiers); the snapshot file
\* of output_dir, if any, is that of the monitors before this one
ConstructMonitor(tag, given) ==
    /\ monitor_pc' = "constructed"
    /\ osm_tag' = tag
    /\ notifiers' = IF Len(given) = 0 THEN <<"JsonFileNotifier">> ELSE given
    /\ last_change_set' = None
    /\ calls' = << >>
    /\ logged' = {}
    /\ UNCHANGED <<snapshot_file, fresh_features, analyser, client>>

\* run() ends by an exception of validate_inputs or of the Overpass client
RunRaises ==
    /\ monitor_pc' = "raised"
    /\ calls' = << >>
    /\ logged' = {}
    /\ UNCHANGED <<snapshot_file, last_change_set, fresh_features>>

\* process() without a snapshot file: the baseline
FirstRun(answer) ==
    /\ monitor_pc' = "returned"
    /\ fresh_features' = answer
    /\ snapshot_file' = SaveSnapshot(answer)
    /\ calls' = << >>
    /\ logged' = {}
    /\ UNCHANGED last_change_set

\* the mutant of LaterRun: send() outside try/except, so that the first
\* failing notifier ends the run before the snapshot is saved
LaterRunUnguarded(answer, failing, change_set) ==
    IF HasChanges(change_set) /\ Logged(notifiers, failing) # {}
    THEN /\ monitor_pc' = "raised"
         /\ fresh_features' = answer
         /\ calls' = [i \in 1..(CHOOSE j \in Logged(notifiers, failing) :
                                   \A l \in Logged(notifiers, failing) : j <= l) |-> i]
         /\ logged' = {}
         /\ UNCHANGED <<snapshot_file, last_change_set>>
    ELSE /\ monitor_pc' = "returned"
         /\ fresh_features' = answer
         /\ calls' = IF HasChanges(change_set) THEN Sent(notifiers, failing) ELSE << >>
         /\ logged' = {}
         /\ snapshot_file' = SaveSnapshot(answer)
         /\ last_change_set' = change_set

\* process() with a snapshot file
LaterRun(answer, failing, change_set) ==
    /\ monitor_pc' = "returned"
    /\ fresh_features' = answer
    /\ calls' = IF HasChanges(change_set) THEN Sent(notifiers, failing) ELSE << >>
    /\ logged' = IF HasChanges(change_set) THEN Logged(notifiers, failing) ELSE {}
    /\ snapshot_file' = SaveSnapshot(answer)
    /\ last_change_set' = change_set

\* process(); query is what query_tag_in_bbox does: it raises, or returns
\* the features
Process(query, failing) ==
    IF query.raises THEN RunRaises
    ELSE IF snapshot_file = None THEN FirstRun(query.features)
    ELSE LaterRun(query.features, failing,
                  ComputeDiff(LoadSnapshot(snapshot_file), query.features))

\* GeoTool.run(): validate_inputs, then process
MonitorRun(query, failing) ==
    /\ monitor_pc # "none"
    /\ failing \subseteq DOMAIN notifiers
    /\ IF ValidateInputs(osm_tag) THEN Process(query, failing) ELSE RunRaises
    /\ UNCHANGED <<osm_tag, notifiers, analyser, client>>

\* the tags given to the monitor: one well formed, one without "=", one
\* without a value
OsmTags == {<<"k", "=", "v">>, <<"k", "v">>, <<"k", "=">>}

\* the notifier lists given to the monitor, the empty one included
Backends == <<"SlackNotifier", "EmailNotifier", "JsonFileNotifier">>
NotifierLists == {SubSeq(Backends, 1, n) : n \in 0..MaxNotifiers}

\* the answers of Overpass: each (type, id) at most once
Answers ==
    {fs \in SUBSET OSMFeatureSnapshot :
        /\ Cardinality(fs) <= MaxFeatures
        /\ \A f \in fs, g \in fs : FeatureKey(f) = FeatureKey(g) => f = g}

\* what a query does: it raises, or it returns an answer
Queries ==
    {[raises |-> TRUE, features |-> {}]} \cup {[raises |-> FALSE, features |-> fs] : fs \in Answers}

NextMonitor ==
    \/ \E tag \in OsmTags, given \in NotifierLists : ConstructMonitor(tag, given)
    \/ \E query \in Queries, failing \in SUBSET (1..MaxNotifiers) : MonitorRun(query, failing)

SpecMonitor == Init /\ [][NextMonitor]_vars

(***************************************************************************)
(* Step 9 on footprints given by their measures.  The regions of           *)
(* SpecVector are rectangles of pixels; here the polygon of a raw          *)
(* footprint is any polygon, given by the measures that lines 866-922 take *)
(* of it, so that each test of the regularisation is met and failed.       *)
(***************************************************************************)
\* a raw row of 400 square metres at a probability of 0.8
MeasuredRow ==
    [geometry |-> {<<1, 1>>, <<1, 2>>, <<2, 1>>, <<2, 2>>}, area_m2 |-> 400,
     prob_mean |-> Flt(<<8, 10>>), prob_max |-> Flt(<<8, 10>>)]

\* the measures of the polygons: rectangularity below, at and above 0.35
\* and 0.5, compactness below, at and above 0.20, aspect ratio from 1 to
\* above 8; each has at most the decimals that the columns keep
MeasuredShapes ==
    { [row |-> MeasuredRow,
       m |-> [area |-> 400, compactness |-> Flt(c), solidity |-> Flt(<<5, 10>>),
              rectangularity |-> Flt(r), aspect_ratio |-> Flt(a),
              edge_sharpness |-> Flt(<<2, 10>>), ndwi_mean |-> Flt(<<-1, 10>>)]] :
        r \in {<<30, 100>>, <<35, 100>>, <<36, 100>>, <<50, 100>>},
        c \in {<<16, 100>>, <<20, 100>>, <<21, 100>>, <<25, 100>>},
        a \in {<<1, 1>>, <<5, 1>>, <<8, 1>>, <<801, 100>>, <<95, 10>>} }

\* the loop of _regularize_footprints on one raw footprint of given measures
RegularizeMeasured(shape) ==
    /\ pc = "constructed"
    /\ footprints' = TableOf(RawColumns, <<shape.row>>)
    /\ regularized' \in
          SortedTables(RecordsOf(Passed(<<Scored(shape.row, shape.m)>>, params), params))
    /\ pc' = "regularized"
    /\ UNCHANGED <<ctor, error, reads, rasters, masks, transform, result, owner, monitor>>

\* the rectangularity floor: the default, 0.5, and one that leaves the
\* filter on the compactness to reject the least compact polygons
GeometryOverrides ==
    { << >>, [min_rectangularity |-> <<5, 10>>], [min_compactness |-> <<2, 10>>] }

NextGeometry ==
    \/ \E ov \in GeometryOverrides : Construct(ov, PlainImagery)
    \/ \E shape \in MeasuredShapes : RegularizeMeasured(shape)

SpecGeometry == Init /\ [][NextGeometry]_vars

(***************************************************************************)
(* Steps 1 and 2 on stacks of one to eight scenes spread over the year.    *)
(***************************************************************************)
\* the months of the scenes of a stack: one or two scenes; one quarter
\* across the turn of the year; two quarters; two quarters and a scene of
\* April; one scene a month; three quarters of which two are full; three
\* full quarters; summer, spring and a scene of January
MonthPatterns ==
    { <<1>>, <<1, 7>>, <<12, 1, 2>>, <<1, 1, 1, 7, 7, 7>>, <<12, 1, 2, 6, 7, 8, 4>>,
      <<1, 2, 3, 4, 5, 6>>, <<1, 1, 1, 4, 4, 7, 7, 7>>, <<2, 5, 8, 1, 4, 7, 12, 3, 6>>,
      <<6, 6, 6, 3, 4, 5, 1>> }

\* the backscatter of a pixel in a scene of a month: the same all year,
\* higher in summer, or higher in spring only
Backscatter(kind, month) ==
    IF kind = "flat" THEN FltOne
    ELSE IF kind = "summer" THEN (IF month \in {6, 7, 8} THEN FltInt(3) ELSE FltOne)
    ELSE (IF month \in {3, 4, 5} THEN FltInt(9) ELSE FltOne)

SeasonalImageries ==
    { [s1_bands |-> {"vv", "vh"},
       vv |-> [t \in 1..Len(months) |-> [px \in 1..NPix |-> Backscatter(kinds[px], months[t])]],
       vh |-> [t \in 1..Len(months) |-> [px \in 1..NPix |-> Flt(<<1, 10>>)]],
       time |-> [t \in 1..Len(months) |-> Date(months[t], t)]] :
        months \in MonthPatterns, kinds \in [1..NPix -> {"flat", "summer", "spring"}] }

NextSeasons ==
    \/ \E img \in SeasonalImageries : Construct([anomaly_kernel_radius |-> <<1, 1>>], img)
    \/ ComputeS1Stats
    \/ SarIndicators

SpecSeasons == Init /\ [][NextSeasons]_vars

(***************************************************************************)
(* run(), step 3, from the optical stack.  The stack imagery.s2 has its    *)
(* band names, the scenes of the classification layer SCL as rasters of    *)
(* codes, and the scenes of each reflectance band as rasters of digital    *)
(* numbers.  The true-colour composite, which no later step reads, is left *)
(* out.                                                                    *)
(***************************************************************************)
\* a set of clear-sky codes that takes thin cirrus (10) for clear
S2_CLEAR_SCL_WITH_CIRRUS == {4, 5, 6, 7, 10, 11}

\* _S2_CLEAR_SCL
S2_CLEAR_SCL == {4, 5, 6, 7, 11}

\* clear = clear | (scl == cls), for cls in _S2_CLEAR_SCL
Clear(scl, t, px) == scl[t][px] \in S2_CLEAR_SCL

\* _mask_s2_clouds: the reflectance bands, NaN where the scene is not clear
MaskS2Clouds(s2_stack) ==
    [b \in DOMAIN s2_stack.refl |->
        [t \in 1..Len(s2_stack.scl) |->
            [px \in DOMAIN s2_stack.scl[t] |->
                IF Clear(s2_stack.scl, t, px) THEN s2_stack.refl[b][t][px] ELSE NaN]]]

\* the median of the values that are not NaN, NaN when there is none
NanMedian(s) ==
    LET k == Sorted(Kept(s))
    IN  IF Len(k) = 0 THEN NaN
        ELSE IF Len(k) % 2 = 1 THEN k[(Len(k) + 1) \div 2]
        ELSE FltDiv(FltAdd(k[Len(k) \div 2], k[Len(k) \div 2 + 1]), FltInt(2))

\* s2_masked.median(dim = "time", skipna = True)
Median(masked) ==
    [b \in DOMAIN masked |->
        [px \in DOMAIN masked[b][1] |-> NanMedian(Series(masked[b], px))]]

\* _band(name): the composite of a band, divided by 10000
Band(s2_med, name) == [px \in DOMAIN s2_med[name] |-> FltDiv(s2_med[name][px], FltInt(10000))]

\* (a - b) / np.where(np.abs(a + b) > 0, a + b, 1e-10), clipped to [-1, 1]
NormalizedDifference(a, b) ==
    [px \in DOMAIN a |->
        Clip(FltDiv(FltSub(a[px], b[px]),
                    IF FltGt(FltAdd(a[px], b[px]), FltZero) \/ FltLt(FltAdd(a[px], b[px]), FltZero)
                    THEN FltAdd(a[px], b[px]) ELSE Eps),
             FltNeg(FltOne), FltOne)]

\* the band names _compute_s2_indices looks up, in the order it does
S2Lookups == <<"SCL", "B04", "B03", "B02", "B08", "B11">>

\* the lookups that fail on a stack
MissingBands(s2_stack) == { i \in 1..Len(S2Lookups) : S2Lookups[i] \notin s2_stack.band }

\* the index rasters of _compute_s2_indices
Ndvi(s2_med) == NormalizedDifference(Band(s2_med, "B08"), Band(s2_med, "B04"))
Ndwi(s2_med) == NormalizedDifference(Band(s2_med, "B03"), Band(s2_med, "B08"))
Ndbi(s2_med) == NormalizedDifference(Band(s2_med, "B11"), Band(s2_med, "B08"))

\* step 3 of run() on the composite
S2IndicesOf(s2_med) == S2Indices(Ndvi(s2_med), Ndwi(s2_med), Ndbi(s2_med))

\* step 3 of run(): _compute_s2_indices raises KeyError at the first band
\* name that the stack does not have, else the indices are taken from the
\* median composite of the clear observations
ComputeS2Indices ==
    /\ pc = "sar_indicators"
    /\ IF MissingBands(imagery.s2) # {}
       THEN /\ pc' = "raised"
            /\ error' = "KeyError in S2 data"
            /\ UNCHANGED <<ctor, reads, rasters, later, monitor>>
       ELSE S2IndicesOf(Median(MaskS2Clouds(imagery.s2)))

(***************************************************************************)
(* run(), step 4: the validity mask.  imagery.dem is the elevation raster, *)
(* on the grid of the SAR stack or on another.                             *)
(***************************************************************************)
\* a single erosion whatever the number of iterations asked for
ErodedOnce(b, k) == IF k <= 0 THEN b ELSE BinaryErosion(b)

RECURSIVE Eroded(_, _)
\* binary_erosion(b, structure = ones((3, 3)), iterations = k)
Eroded(b, k) == IF k <= 0 THEN b ELSE Eroded(BinaryErosion(b), k - 1)

\* dem_valid: ~np.isnan(dem_arr), or all True when the shape of the
\* elevation raster is not that of the SAR mean
DemValid(dem, shape) ==
    [px \in shape |-> IF DOMAIN dem = shape THEN ~ IsNaN(dem[px]) ELSE TRUE]

\* combined = s1_valid & s2_valid & dem_valid
ValidEverywhere(vv, vi, dem) ==
    [px \in DOMAIN vv |->
        ~ IsNaN(vv[px]) /\ ~ IsNaN(vi[px]) /\ DemValid(dem, DOMAIN vv)[px]]

\* _build_validity_mask
BuildValidityMask(vv, vi, dem, edge_px) ==
    IF edge_px > 0 THEN Eroded(ValidEverywhere(vv, vi, dem), edge_px)
    ELSE ValidEverywhere(vv, vi, dem)

\* step 4 of run(); the slope mask by its result
BuildMasksStep(slope) ==
    BuildMasks(BuildValidityMask(vv_mean, ndvi, imagery.dem, IntOf(params.edge_erosion_px)),
               slope)

\* a raster of one row as an image, and back
AsRow(raster) == [q \in {1} \X DOMAIN raster |-> raster[q[2]]]
FromRow(image) == [px \in { q[2] : q \in DOMAIN image } |-> image[<<1, px>>]]

\* step 4 of run() on rasters of one row
BuildMasksRowStep(slope) ==
    BuildMasks(FromRow(BuildValidityMask(AsRow(vv_mean), AsRow(ndvi), AsRow(imagery.dem),
                                         IntOf(params.edge_erosion_px))),
               slope)

\* the pixels without data of an input of the validity runs: none, the
\* centre, a corner, or a pixel next to the border
GapSets == { {}, {<<4, 4>>}, {<<1, 1>>}, {<<2, 6>>} }

\* a raster of the grid of the vector runs, missing on a set of pixels
Gapped(gaps, v) == [px \in VectorGrid |-> IF px \in gaps THEN NaN ELSE v]

\* an elevation raster of another shape than the SAR stack
CoarseDem == [px \in (1..2) \X (1..2) |-> IF px = <<1, 1>> THEN NaN ELSE FltInt(100)]

\* the SAR stack with gaps, and an elevation raster with gaps or coarse
ValidityImagery(sar_gaps, dem) ==
    [k \in DOMAIN GridImagery(10, {"vv", "vh"}) \cup {"dem"} |->
        IF k = "dem" THEN dem
        ELSE IF k = "vv" THEN << Gapped(sar_gaps, FltOne) >>
        ELSE GridImagery(10, {"vv", "vh"})[k]]

ValidityImageries ==
    { ValidityImagery(sar_gaps, dem) :
        sar_gaps \in GapSets,
        dem \in { Gapped(gaps, FltInt(100)) : gaps \in GapSets } \cup { CoarseDem } }

\* edge_erosion_px: the default of 2, 0, 1 and 3
ValidityOverrides ==
    { << >>, [edge_erosion_px |-> <<0, 1>>], [edge_erosion_px |-> <<1, 1>>],
      [edge_erosion_px |-> <<3, 1>>] }

\* the vegetation index of the validity runs, with gaps
ValidityNdvi == { Gapped(gaps, Flt(<<8, 10>>)) : gaps \in GapSets }

\* the indicators of the validity runs: the first layout
ValidityIndicators == { LayoutIndicators(<< >>) }

NextValidity ==
    \/ \E ov \in ValidityOverrides, img \in ValidityImageries : Construct(ov, img)
    \/ ComputeS1Stats
    \/ \E ind \in ValidityIndicators, vi \in ValidityNdvi :
            Steps2To3(ind, vi, Uniform(Flt(<<-1, 10>>)), Uniform(FltZero))
    \/ BuildMasksStep(Uniform(TRUE))

SpecValidity == Init /\ [][NextValidity]_vars

(***************************************************************************)
(* Steps 1 to 5 of run() from a SAR stack, an optical stack of three       *)
(* scenes and an elevation raster, all of one row of NPix pixels.          *)
(***************************************************************************)
\* the classification codes of a pixel in the three scenes: clear in all;
\* cloud, vegetation, cloud; shadow and clouds; snow, cloud, bare soil;
\* thin cirrus twice and vegetation
SclPatterns == { <<4, 4, 4>>, <<8, 4, 9>>, <<3, 8, 9>>, <<11, 8, 5>>, <<10, 10, 4>> }

\* the digital number of a band in scene t under a classification code:
\* forest when clear, dark in shadow, brighter under cirrus, bright in cloud
Reflectance(b, t, code) ==
    IF code \in {4, 5, 6, 7, 11}
    THEN (IF b = "B08" THEN FltInt(5000 + 100 * t)
          ELSE IF b = "B11" THEN FltInt(2000)
          ELSE FltInt(500))
    ELSE IF code = 3 THEN FltInt(200)
    ELSE IF code = 10 THEN (IF b = "B08" THEN FltInt(6000) ELSE FltInt(4000))
    ELSE FltInt(9000)

\* the optical stack of the pixels whose codes are given, under band names
OpticalStack(bands, codes) ==
    [band |-> bands,
     scl |-> [t \in 1..3 |-> [px \in 1..NPix |-> codes[px][t]]],
     refl |-> [b \in bands \ {"SCL"} |->
                 [t \in 1..3 |-> [px \in 1..NPix |-> Reflectance(b, t, codes[px][t])]]]]

S2Bands == {"B04", "B03", "B02", "B08", "B11", "B12", "SCL"}

\* two SAR scenes of January, an optical stack and a flat elevation raster
OpticalImagery(s1_bands, s2_stack) ==
    [s1_bands |-> s1_bands,
     vv |-> [t \in 1..2 |-> [px \in 1..NPix |-> FltOne]],
     vh |-> [t \in 1..2 |-> [px \in 1..NPix |-> Flt(<<1, 10>>)]],
     time |-> [t \in 1..2 |-> Date(1, t)],
     s2 |-> s2_stack,
     dem |-> [px \in 1..NPix |-> FltInt(100)]]

\* every assignment of the patterns to the pixels under the expected band
\* names; and the first pattern everywhere with the SAR bands, the SCL band,
\* the near infrared band or the short-wave infrared band missing
OpticalImageries ==
    { OpticalImagery({"vv", "vh"}, OpticalStack(S2Bands, codes)) :
        codes \in [1..NPix -> SclPatterns] }
    \cup { OpticalImagery({"hh", "hv"}, OpticalStack(S2Bands, [px \in 1..NPix |-> <<4, 4, 4>>])) }
    \cup { OpticalImagery({"vv", "vh"},
                          OpticalStack(S2Bands \ {b}, [px \in 1..NPix |-> <<4, 4, 4>>])) :
             b \in {"SCL", "B08", "B11"} }

\* no edge erosion, the default erosion, and weights that sum to 1.05
OpticalOverrides ==
    { [anomaly_kernel_radius |-> <<1, 1>>, edge_erosion_px |-> <<0, 1>>],
      [anomaly_kernel_radius |-> <<1, 1>>],
      [anomaly_kernel_radius |-> <<1, 1>>, edge_erosion_px |-> <<0, 1>>,
       w_seasonal |-> <<15, 100>>] }

NextOptical ==
    \/ \E ov \in OpticalOverrides, img \in OpticalImageries : Construct(ov, img)
    \/ ComputeS1Stats
    \/ SarIndicators
    \/ ComputeS2Indices
    \/ BuildMasksRowStep([px \in 1..NPix |-> TRUE])
    \/ Fuse

SpecOptical == Init /\ [][NextOptical]_vars

(***************************************************************************)
(* Steps 1 to 8 of run() on rasters whose blobs touch at a corner, carry   *)
(* two levels, or lie just above a threshold with five decimals.           *)
(***************************************************************************)
\* the level of the last patch that covers px, the background where there
\* is none
TopLevelAt(layout, px) ==
    LET covering == { i \in DOMAIN layout.patches :
                        /\ px[1] \in layout.patches[i].r0..layout.patches[i].r1
                        /\ px[2] \in layout.patches[i].c0..layout.patches[i].c1 }
    IN  IF covering = {} THEN Flt(layout.background)
        ELSE Flt(layout.patches[CHOOSE i \in covering : \A j \in covering : j <= i].level)

\* nothing; two blocks of nine pixels that touch at a corner; a block of
\* nine pixels with a brighter centre; a block of fifteen and a block of
\* nine apart; a block of nine at 0.05123; all on a background of 0.01
BlobLayouts ==
    { [background |-> <<1, 100>>, patches |-> << >>],
      [background |-> <<1, 100>>,
       patches |-> <<Patch(1, 3, 1, 3, <<5, 10>>), Patch(4, 6, 4, 6, <<8, 10>>)>>],
      [background |-> <<1, 100>>,
       patches |-> <<Patch(2, 4, 2, 4, <<5, 10>>), Patch(3, 3, 3, 3, <<8, 10>>)>>],
      [background |-> <<1, 100>>,
       patches |-> <<Patch(1, 3, 1, 5, <<6, 10>>), Patch(5, 7, 5, 7, <<8, 10>>),
                     Patch(2, 2, 2, 2, <<9, 10>>)>>],
      [background |-> <<1, 100>>,
       patches |-> <<Patch(3, 5, 3, 5, <<5123, 100000>>)>>] }

\* the eight indicators all at the level of the layout
BlobIndicators ==
    { Named([k \in 1..8 |-> [px \in VectorGrid |-> TopLevelAt(layout, px)]]) :
        layout \in BlobLayouts }

\* the defaults, the area floor at and above nine pixels of 10 m, the
\* medium threshold at 0.05121 and at 0.05, and the two thresholds inverted
BlobOverrides ==
    { << >>,
      [min_footprint_area |-> <<900, 1>>],
      [min_footprint_area |-> <<950, 1>>],
      [thresh_medium |-> <<5121, 100000>>],
      [thresh_medium |-> <<5, 100>>, min_footprint_area |-> <<1000, 1>>],
      [thresh_medium |-> <<7, 10>>, thresh_high |-> <<55, 100>>] }

\* the slope mask of these runs: flat everywhere, or steep in column 4
BlobSlopes == { Uniform(TRUE), [px \in VectorGrid |-> px[2] # 4] }

BlobImageries == { GridImagery(10, {"vv", "vh"}), GridImagery(20, {"vv", "vh"}) }

NextBlobs ==
    \/ \E ov \in BlobOverrides, img \in BlobImageries : Construct(ov, img)
    \/ ComputeS1Stats
    \/ \E ind \in BlobIndicators :
            Steps2To3(ind, Uniform(Flt(<<8, 10>>)), Uniform(Flt(<<-1, 10>>)), Uniform(FltZero))
    \/ \E slope \in BlobSlopes : BuildMasks(Uniform(TRUE), slope)
    \/ Fuse
    \/ ConfidenceZones
    \/ MorphologicalOpenStep
    \/ ExtractFootprintsStep

SpecBlobs == Init /\ [][NextBlobs]_vars

(***************************************************************************)
(* The caller changes the parameters of the analyser after run() has       *)
(* returned.  AnalysisResult(..., params=self.params) hands the result the *)
(* dict of the analyser itself, not a copy, and AnalysisResult is a plain  *)
(* (not frozen) dataclass: the result and the analyser hold one dict.      *)
(***************************************************************************)
\* analyser.params[key] = value: an item of the dict is assigned, and every
\* holder of the dict sees it
SetParamsItem(key, value) ==
    /\ pc = "returned"
    /\ params[key] # value
    /\ params' = [params EXCEPT ![key] = value]
    /\ result' = [result EXCEPT !.params = params']
    /\ UNCHANGED <<pc, imagery, total_w, error, reads, rasters, masks, transform,
                   footprints, regularized, owner, monitor>>

\* the parameters the caller changes, and the values it gives them
ChangedParams == {"thresh_medium", "thresh_high", "min_footprint_area"}
ChangedValues == { <<9, 10>>, <<45, 100>>, <<100, 1>> }

NextSnapshot ==
    \/ \E ov \in FrameOverrides, img \in FrameImageries : Construct(ov, img)
    \/ ComputeS1Stats
    \/ \E ind \in FrameIndicators :
            Steps2To3(ind, Uniform(Flt(<<8, 10>>)), Uniform(Flt(<<-1, 10>>)), Uniform(FltZero))
    \/ BuildMasks(Uniform(TRUE), Uniform(TRUE))
    \/ Fuse
    \/ ConfidenceZones
    \/ MorphologicalOpenStep
    \/ ExtractFootprintsStep
    \/ RegularizeFootprintsStep
    \/ Return
    \/ \E key \in ChangedParams, value \in ChangedValues : SetParamsItem(key, value)

SpecSnapshot == Init /\ [][NextSnapshot]_vars

(***************************************************************************)
(* OverpassClient.query_tag_in_bbox: the retry loop.  api is what the      *)
(* successive calls of self.api.query do: TRUE when the call returns,      *)
(* FALSE when it raises an OverPyException.                                *)
(***************************************************************************)
\* the most retries a client is given
MaxRetries == 3

RECURSIVE Attempt(_, _, _)
\* the iterations of "for attempt in range(1, self.max_retries + 1)" from
\* one on: what they do, and how the loop ends: by the return of the parsed
\* result, by the re-raised exception, or by running out of iterations
Attempt(attempt, retries, api) ==
    IF attempt > retries THEN [did |-> << >>, ends |-> "fell through"]
    ELSE IF api[attempt] THEN [did |-> <<"ok">>, ends |-> "parsed"]
    ELSE IF attempt < retries
         THEN [did |-> <<"error", "sleep">> \o Attempt(attempt + 1, retries, api).did,
               ends |-> Attempt(attempt + 1, retries, api).ends]
         ELSE [did |-> <<"error">>, ends |-> "raised"]

\* OverpassClient(api_url, max_retries, retry_delay)
ConstructClient(retries) ==
    /\ client_pc' = "constructed"
    /\ max_retries' = retries
    /\ attempts' = << >>
    /\ snapshots' = {}
    /\ UNCHANGED <<analyser, polling>>

\* query_tag_in_bbox(osm_tag, bbox); answer is what Overpass holds
QueryTagInBbox(tag, api, answer) ==
    /\ client_pc # "none"
    /\ IF ~ ValidateInputs(tag)
       THEN /\ client_pc' = "raised"
            /\ attempts' = << >>
            /\ snapshots' = {}
       ELSE /\ attempts' = Attempt(1, max_retries, api).did
            /\ client_pc' = IF Attempt(1, max_retries, api).ends = "raised"
                            THEN "raised" ELSE "returned"
            /\ snapshots' = IF Attempt(1, max_retries, api).ends = "parsed"
                            THEN answer ELSE {}
    /\ UNCHANGED <<max_retries, analyser, polling>>

\* the retries a client is constructed with: the default 3, fewer, none, and
\* a negative number
RetryCounts == (-1)..MaxRetries

\* what the API does, call by call
ApiBehaviours == [1..MaxRetries -> BOOLEAN]

NextClient ==
    \/ \E retries \in RetryCounts : ConstructClient(retries)
    \/ \E tag \in OsmTags, api \in ApiBehaviours, answer \in Answers :
            QueryTagInBbox(tag, api, answer)

SpecClient == Init /\ [][NextClient]_vars

(***************************************************************************)
(* The weight check of the constructor.                                    *)
(***************************************************************************)
\* |t - 1| > 1/100 over the reals, for a binary64 t: with d = |t - 1| in
\* units of 2^-60, 100 * d > 2^60, multiplied out in limbs of 15 bits
MoreThanHundredthFromOne(t) ==
    LET big == IF FLt(t, FOne) THEN FOne ELSE t
        small == IF FLt(t, FOne) THEN t ELSE FOne
        borrow == IF big[2] < small[2] THEN 1 ELSE 0
        dh == big[1] - small[1] - borrow
        dl == big[2] - small[2] + borrow * Limb
        c0 == (dl % Pow2(15)) * 100
        c1 == (dl \div Pow2(15)) * 100 + (c0 \div Pow2(15))
        c2 == (dh % Pow2(15)) * 100 + (c1 \div Pow2(15))
        c3 == (dh \div Pow2(15)) * 100 + (c2 \div Pow2(15))
        top == c3 \div Pow2(15)
        low == <<c3 % Pow2(15), c2 % Pow2(15), c1 % Pow2(15), c0 % Pow2(15)>>
    IN  top > 1 \/ (top = 1 /\ low # <<0, 0, 0, 0>>)

\* the sum of the eight weight literals of p, in thousandths
DecimalSum(p) ==
    LET th(i) == (p[Weights[i]][1] * 1000) \div p[Weights[i]][2]
    IN  th(1) + th(2) + th(3) + th(4) + th(5) + th(6) + th(7) + th(8)

\* C1: the constructor raises the "weights must sum to 1.0" error if and
\* only if the sum of the eight merged weights differs from 1.0 by more
\* than 0.01; it raises before run() has read any imagery, and the default
\* weights pass.  The sum is total_w, the binary64 sum; weights whose
\* decimal sum is below 0.99 or above 1.01 are rejected and weights whose
\* decimal sum is 1.00 are accepted.
C1_WeightSumChecked ==
    pc # "new" =>
        /\ (error = WeightError) <=> MoreThanHundredthFromOne(total_w)
        /\ (DecimalSum(params) < 990 \/ DecimalSum(params) > 1010) => error = WeightError
        /\ DecimalSum(params) = 1000 => error # WeightError
        /\ error = WeightError => pc = "raised" /\ reads = 0
        /\ reads > 0 => ~ MoreThanHundredthFromOne(total_w)
        /\ params = DEFAULT_PARAMS => error # WeightError

\* a rejected set of weights whose decimal sum is 0.98, before any read
C1_Witness ==
    /\ pc = "raised"
    /\ error = WeightError
    /\ DecimalSum(params) = 980
    /\ reads = 0

C3_ConfidenceMonotonic ==
    pc = "zoned" =>
        \A i \in DOMAIN probability, j \in DOMAIN probability :
            FltLt(probability[i], probability[j]) => confidence[i] <= confidence[j]

\* with inverted thresholds (high below medium), a pixel between the two and
\* a pixel above both
C3_Witness ==
    /\ pc = "zoned"
    /\ FltLt(Flt(params.thresh_high), Flt(params.thresh_medium))
    /\ \E i \in DOMAIN probability, j \in DOMAIN probability :
         /\ FltGe(probability[i], Flt(params.thresh_high))
         /\ FltLt(probability[i], Flt(params.thresh_medium))
         /\ FltGe(probability[j], Flt(params.thresh_medium))
         /\ confidence[i] <= confidence[j]

\* C4: (with thresh_medium <= thresh_high) the confidence of a pixel is 0
\* exactly when its probability is missing, 1 when it is finite and below the
\* medium threshold, 2 when it is >= medium and < high, 3 when it is >= high.
C4_FourZones ==
    (pc = "zoned" /\ FltLe(Flt(params.thresh_medium), Flt(params.thresh_high))) =>
        \A px \in DOMAIN probability :
            LET v == probability[px]
                medium == Flt(params.thresh_medium)
                high == Flt(params.thresh_high)
            IN  /\ confidence[px] = 0 <=> IsNaN(v)
                /\ confidence[px] = 1 <=> (~ IsNaN(v) /\ FltLt(v, medium))
                /\ confidence[px] = 2 <=> (FltGe(v, medium) /\ FltLt(v, high))
                /\ confidence[px] = 3 <=> FltGe(v, high)

\* C5: every non-missing value of the probability raster lies in [0, 1].
C5_ProbabilityInUnit ==
    pc \in {"fused", "zoned"} =>
        \A px \in DOMAIN probability :
            ~ IsNaN(probability[px]) =>
                FltGe(probability[px], FltZero) /\ FltLe(probability[px], FltOne)

(***************************************************************************)
(* The ranges of the indicators.                                           *)
(***************************************************************************)
InUnit(v) == FltGe(v, FltZero) /\ FltLe(v, FltOne)

\* every value of every indicator computed so far that is not NaN is in [0, 1]
IndicatorsInUnit ==
    \A k \in DOMAIN indicators : \A px \in DOMAIN indicators[k] :
        ~ IsNaN(indicators[k][px]) => InUnit(indicators[k][px])

\* C6 as stated: for finite, non-negative SAR power, every finite value of
\* each indicator lies in [0, 1], and every stability value is >= the
\* configured stability_floor.
C6_AsStated ==
    pc \in {"sar_indicators", "indexed"} =>
        /\ IndicatorsInUnit
        /\ \A px \in DOMAIN indicators.stability :
              FltGe(indicators.stability[px], Flt(params.stability_floor))

\* C6: for finite, non-negative SAR power, every finite value of each
\* indicator lies in [0, 1], and every stability value is >= the smaller of
\* the configured stability_floor and 1.0.
C6_IndicatorRanges ==
    pc \in {"sar_indicators", "indexed"} =>
        /\ IndicatorsInUnit
        /\ \A px \in DOMAIN indicators.stability :
              FltGe(indicators.stability[px], FltMin(Flt(params.stability_floor), FltOne))

\* the eight indicators computed, with a floor of 1.5 and a pixel of varying
\* backscatter whose stability is 1.0, below the floor
C6_Witness ==
    /\ pc = "indexed"
    /\ DOMAIN indicators = {Indicators[i] : i \in 1..8}
    /\ params.stability_floor = <<15, 10>>
    /\ \E px \in DOMAIN vv_std :
          /\ FltGt(vv_std[px], FltZero)
          /\ indicators.stability[px] = FltOne

\* C7: for finite non-negative inputs the stability and the polarimetric
\* ratio are computed without an exception and are finite at every pixel,
\* a co-polarized mean of 0 included; and where the co-polarized standard
\* deviation is 0 the stability is exactly 1.0, whatever the mean and floor.
C7_GuardedDivisions ==
    pc \in {"sar_indicators", "indexed"} =>
        /\ error = ""
        /\ \A px \in DOMAIN vv_mean :
              /\ IsFinite(indicators.stability[px])
              /\ IsFinite(indicators.pol_ratio_norm[px])
              /\ vv_std[px] = FltZero => indicators.stability[px] = FltOne

\* a pixel whose co-polarized power is 0 in every scene, with a floor that is
\* not the default: its stability is 1.0 and its ratio is finite
C7_Witness ==
    /\ pc = "sar_indicators"
    /\ params.stability_floor # DEFAULT_PARAMS.stability_floor
    /\ \E px \in DOMAIN vv_mean :
          /\ vv_mean[px] = FltZero
          /\ vv_std[px] = FltZero
          /\ indicators.stability[px] = FltOne
          /\ indicators.pol_ratio_norm[px] = FltOne

\* C8: the anomaly never propagates missing data: whatever the input image,
\* no pixel of its output is NaN.
C8_AnomalyHasNoNaN ==
    pc = "indexed" =>
        \A px \in DOMAIN ndbi_anomaly :
            ~ IsNaN(ndbi_anomaly[px]) /\ ~ IsNaN(indicators.sar_anomaly[px])

(***************************************************************************)
(* The morphological opening and the forest mask.                          *)
(***************************************************************************)
\* the 3 x 3 windows that contain px and lie inside the grid
WindowsInGrid(px) == { Window(c) : c \in { q \in Window(px) : Window(q) \subseteq Grid } }

AtOrAbove(v, threshold) == ~ IsNaN(v) /\ FltGe(v, threshold)

\* C9: the opening keeps a pixel, with its original probability, if and only
\* if the pixel is not missing, is at or above the threshold, and lies in
\* some 3 x 3 window inside the grid whose nine pixels are all at or above
\* the threshold; every other pixel becomes missing.  An isolated pixel is
\* removed, and a 5 x 5 block is preserved whole.
C9_OpeningKeepsWindows ==
    pc = "opened" =>
        LET t == Flt(params.thresh_medium)
        IN  \A px \in Grid :
                IF /\ AtOrAbove(probability[px], t)
                   /\ \E w \in WindowsInGrid(px) : \A q \in w : AtOrAbove(probability[q], t)
                THEN clean_prob[px] = probability[px]
                ELSE IsNaN(clean_prob[px])

\* a 5 x 5 block kept whole, the rest of the grid missing
C9_Witness ==
    /\ pc = "opened"
    /\ \E r0 \in 1..GridSize - 4, c0 \in 1..GridSize - 4 :
          /\ probability = Block(r0, r0 + 4, c0, c0 + 4)
          /\ \A px \in Grid :
                IF px[1] \in r0..r0 + 4 /\ px[2] \in c0..c0 + 4
                THEN clean_prob[px] = Flt(<<8, 10>>)
                ELSE IsNaN(clean_prob[px])

\* C10: a pixel is in the forest mask if and only if its NDVI is >= the
\* forest threshold and its NDWI is < the water threshold; a missing index
\* excludes the pixel.  With the default thresholds (0.55, 0.15): NDVI 0.8
\* with NDWI -0.1 is in, NDVI 0.2 is out, NDWI 0.5 is out whatever the NDVI.
C10_ForestMask ==
    pc = "forest_masked" =>
        \A px \in DOMAIN forest_mask :
            LET v == ndvi[px]
                w == ndwi[px]
                tv == Flt(params.forest_ndvi_threshold)
                tw == Flt(params.water_ndwi_threshold)
            IN  /\ forest_mask[px] <=>
                       (~ IsNaN(v) /\ ~ IsNaN(w) /\ ~ FltLt(v, tv) /\ ~ FltLe(tw, w))
                /\ (v = tv /\ FltLt(w, tw)) => forest_mask[px]
                /\ w = tw => ~ forest_mask[px]
                /\ (tv = Flt(<<55, 100>>) /\ tw = Flt(<<15, 100>>)) =>
                      /\ (v = Flt(<<8, 10>>) /\ w = Flt(<<-1, 10>>)) => forest_mask[px]
                      /\ v = Flt(<<2, 10>>) => ~ forest_mask[px]
                      /\ w = Flt(<<5, 10>>) => ~ forest_mask[px]

\* default thresholds, one pixel with the water index at its threshold and
\* excluded, the other with the vegetation index at its threshold and included
C10_Witness ==
    /\ pc = "forest_masked"
    /\ params = DEFAULT_PARAMS
    /\ \E i \in DOMAIN forest_mask, j \in DOMAIN forest_mask :
          /\ ndwi[i] = Flt(<<15, 100>>) /\ ndvi[i] = Flt(<<8, 10>>) /\ ~ forest_mask[i]
          /\ ndvi[j] = Flt(<<55, 100>>) /\ ndwi[j] = Flt(<<-1, 10>>) /\ forest_mask[j]

(***************************************************************************)
(* The combined mask.                                                      *)
(***************************************************************************)
AllThreeMasks(px) == validity_mask[px] /\ forest_mask[px] /\ slope_mask[px]

\* C19: the combined mask is the conjunction of the validity, forest and
\* slope masks, and the fusion is restricted to it: the probability is not
\* missing at a pixel only if the three masks hold there, and it is missing
\* wherever one of them fails, whatever the indicators at that pixel.
C19_CombinedMaskRestrictsFusion ==
    /\ pc \in {"masked", "fused"} =>
          \A px \in DOMAIN combined_mask : combined_mask[px] <=> AllThreeMasks(px)
    /\ pc = "fused" =>
          \A px \in DOMAIN probability :
              /\ ~ IsNaN(probability[px]) => AllThreeMasks(px)
              /\ ~ AllThreeMasks(px) => IsNaN(probability[px])

\* a pixel of forest with valid data and finite indicators that the slope
\* mask alone excludes, next to a pixel where the three masks hold
C19_Witness ==
    /\ pc = "fused"
    /\ \E px \in DOMAIN probability, qx \in DOMAIN probability :
          /\ validity_mask[px] /\ forest_mask[px] /\ ~ slope_mask[px]
          /\ ~ IsNaN(fusion[px]) /\ IsNaN(probability[px])
          /\ AllThreeMasks(qx) /\ ~ IsNaN(probability[qx])

(***************************************************************************)
(* The raw and the regularized footprints.                                 *)
(***************************************************************************)
\* the elements of a sequence
Elements(seq) == { seq[i] : i \in DOMAIN seq }

\* the pixels of a rectangle
Cells(box) == (box.r0..box.r1) \X (box.c0..box.c1)

\* the regions that ndi_label finds in the cleaned probability
LabelledRegions == Elements(Regions(Binary(clean_prob, Flt(params.thresh_medium))))

\* the polygons of the raw footprints
RawGeometries == { footprints.rows[i].geometry : i \in 1..Len(footprints.rows) }

\* floor(min_area / pixel_area), in pixels
FloorPixels ==
    params.min_footprint_area[1]
        \div (params.min_footprint_area[2] * Abs(transform.a * transform.e))

\* C11: a labelled region that covers exactly floor(min_area / pixel_area)
\* pixels is left out of the raw footprints, and a region that covers one
\* pixel more is among them, for every min_area and pixel area.
C11_AreaFilter ==
    pc = "vectorised" =>
        \A region \in LabelledRegions :
            /\ Cardinality(region) = FloorPixels => region \notin RawGeometries
            /\ Cardinality(region) = FloorPixels + 1 => region \in RawGeometries

\* every labelled region is below the minimum area
AllBelowMinArea ==
    \A region \in LabelledRegions :
        AreaBelow(Cardinality(region) * Abs(transform.a * transform.e),
                  params.min_footprint_area)

\* a raw footprint with its measures and its score
ScoredRaw(row) ==
    Scored(row, Measures(row.geometry, NanToNum(probability), NanToNum(ndwi), transform))

\* the hard filter rejects a footprint, given with its measures and score
RejectedScored(s) == Rejected(s.m, s.score, params)

\* the hard filter rejects the i-th raw footprint
RejectedRaw(i) == \E s \in {ScoredRaw(footprints.rows[i])} : RejectedScored(s)

\* C12: with no connected region, or every region below the minimum area,
\* _extract_footprints returns an empty table with the columns geometry,
\* area_m2, prob_mean, prob_max; with an empty raw table, or every raw
\* footprint rejected, _regularize_footprints returns an empty table with
\* the full regularized column set; neither returns None nor raises.
C12_EmptyResultPolicy ==
    /\ pc \in {"vectorised", "regularized", "returned"} =>
          /\ footprints # None
          /\ error = ""
          /\ footprints.columns = <<"geometry", "area_m2", "prob_mean", "prob_max">>
          /\ (LabelledRegions = {} \/ AllBelowMinArea) => footprints.rows = << >>
    /\ pc \in {"regularized", "returned"} =>
          /\ regularized # None
          /\ error = ""
          /\ (Len(footprints.rows) = 0 \/ \A i \in 1..Len(footprints.rows) : RejectedRaw(i)) =>
                /\ regularized.rows = << >>
                /\ regularized.columns =
                      <<"geometry", "area_m2", "prob_mean", "prob_max", "compactness",
                        "rectangularity", "solidity", "aspect_ratio", "edge_sharpness",
                        "ndwi_mean", "building_score", "is_rectangular">>

\* a run whose raw footprints are all rejected by the hard filter
C12_Witness ==
    /\ pc = "regularized"
    /\ Len(footprints.rows) > 0
    /\ \A i \in 1..Len(footprints.rows) : RejectedRaw(i)
    /\ regularized.rows = << >>

\* the mean sampled NDWI of two footprints that are compared
NdwiSamples ==
    { Flt(<<-3, 10>>), Flt(<<-1, 10>>), FltZero, Flt(<<5, 100>>), Flt(<<1, 10>>),
      Flt(<<15, 100>>), Flt(<<2, 10>>), Flt(<<3, 10>>), Flt(<<5, 10>>) }

\* the building score of a footprint whose mean sampled NDWI is v, every
\* other scoring input as measured
ScoreAtNdwi(s, v) == ScoreOf(s.row, [s.m EXCEPT !.ndwi_mean = v])

\* the water penalty on one footprint, from its score at each sampled NDWI
\* and its score with a water component of zero
PenaltyOn(at, dry) ==
    /\ FltLt(at[Flt(<<3, 10>>)], at[Flt(<<-1, 10>>)])
    /\ \A v \in NdwiSamples, w \in NdwiSamples :
          /\ FltLe(v, w) => FltLe(at[w], at[v])
          /\ FltLt(v, FltZero) => at[v] = at[FltZero]
          /\ FltGe(v, Flt(<<2, 10>>)) => at[v] = dry

\* the water penalty on one scored footprint
WaterPenalty(s) ==
    /\ \A at \in {[v \in NdwiSamples |-> ScoreAtNdwi(s, v)]} :
          PenaltyOn(at, ScoreWithWater(s.row, s.m, FltZero))
    /\ s.score = ScoreAtNdwi(s, s.m.ndwi_mean)

\* C13: of two footprints alike in every other scoring input, the one whose
\* sampled NDWI is 0.3 has a strictly lower building score than the one
\* whose sampled NDWI is -0.1; the score does not increase with the mean
\* sampled NDWI, a negative NDWI gives no penalty, and a mean NDWI of 0.2
\* or more takes away the whole water component.
C13_WaterPenalty ==
    pc = "regularized" =>
        \A i \in 1..Len(footprints.rows) :
            \A s \in {ScoredRaw(footprints.rows[i])} : WaterPenalty(s)

\* a footprint sampled at NDWI 0.3 in the run, scored below what it would
\* get at -0.1
C13_Witness ==
    /\ pc = "regularized"
    /\ \E i \in 1..Len(regularized.rows) :
          /\ regularized.rows[i].ndwi_mean = Flt(<<3, 10>>)
          /\ \E j \in 1..Len(footprints.rows) :
                /\ footprints.rows[j].geometry = Cells(regularized.rows[i].geometry.box)
                /\ \E s \in {ScoredRaw(footprints.rows[j])} :
                      FltLt(regularized.rows[i].building_score,
                            ScoreAtNdwi(s, Flt(<<-1, 10>>)))

\* the probability surface is one 5 x 5 block of pixels at or above the
\* medium threshold on a uniform background below it
SingleBlob ==
    /\ \A px \in DOMAIN probability : ~ IsNaN(probability[px])
    /\ \E r0 \in 1..VectorSize - 4, c0 \in 1..VectorSize - 4 :
          Binary(probability, Flt(params.thresh_medium)) = (r0..r0 + 4) \X (c0..c0 + 4)
    /\ \A px \in DOMAIN probability, qx \in DOMAIN probability :
          (FltLt(probability[px], Flt(params.thresh_medium))
           /\ FltLt(probability[qx], Flt(params.thresh_medium)))
            => probability[px] = probability[qx]

\* C14: for a probability surface of one isolated 5 x 5 block above the
\* threshold on a uniform background below it, the opening, the
\* vectorisation and the regularisation with the default parameters return
\* exactly one polygon, which covers the block, whose area is within one
\* pixel of 25 pixels and whose rectangularity is above 0.8.
C14_SingleBlob ==
    (pc = "regularized" /\ params = DEFAULT_PARAMS /\ SingleBlob) =>
        /\ Len(regularized.rows) = 1
        /\ Cells(regularized.rows[1].geometry.box)
              = Binary(probability, Flt(params.thresh_medium))
        /\ Abs(regularized.rows[1].area_m2 - 25 * Abs(transform.a * transform.e))
              <= Abs(transform.a * transform.e)
        /\ FltGt(regularized.rows[1].rectangularity, Flt(<<8, 10>>))

\* the block on a grid of 20 m pixels, returned as one polygon of 10 000
\* square metres
C14_Witness ==
    /\ pc = "regularized"
    /\ params = DEFAULT_PARAMS
    /\ SingleBlob
    /\ transform.a = 20
    /\ Len(regularized.rows) = 1
    /\ regularized.rows[1].area_m2 = 10000

\* the records of the raw footprints that pass the filters, in raw order
PassedRecords ==
    RegularizedRecords(footprints.rows, NanToNum(probability), NanToNum(ndwi), transform,
                       params)

\* the sequence a holds the elements of the sequence b, each once
IsPermutation(a, b) ==
    /\ Len(a) = Len(b)
    /\ \E f \in [1..Len(a) -> 1..Len(a)] :
          /\ \A i, j \in 1..Len(a) : i # j => f[i] # f[j]
          /\ \A i \in 1..Len(a) : a[i] = b[f[i]]

\* C15: the regularized table is ordered by descending building score,
\* building_score[i] >= building_score[i + 1] for consecutive rows, and
\* its rows are a permutation of the footprints that passed the filters.
C15_SortedByScore ==
    pc = "regularized" =>
        /\ \A i \in 1..Len(regularized.rows) - 1 :
              FltGe(regularized.rows[i].building_score,
                    regularized.rows[i + 1].building_score)
        /\ \A passed \in {PassedRecords} : IsPermutation(regularized.rows, passed)

\* two footprints returned in the reverse of their raw order, the second
\* raw footprint having the strictly higher score
C15_Witness ==
    /\ pc = "regularized"
    /\ Len(footprints.rows) = 2
    /\ Len(regularized.rows) = 2
    /\ FltGt(regularized.rows[1].building_score, regularized.rows[2].building_score)
    /\ Cells(regularized.rows[1].geometry.box) = footprints.rows[2].geometry
    /\ Cells(regularized.rows[2].geometry.box) = footprints.rows[1].geometry

\* the five bounds on one scored footprint: which of them it meets
FiveBounds(s) ==
    [area |-> s.m.area * params.max_footprint_area[2] <= params.max_footprint_area[1],
     compactness |-> FltGe(s.m.compactness, Flt(params.min_compactness)),
     aspect_ratio |-> FltLe(s.m.aspect_ratio, Flt(params.max_aspect_ratio)),
     solidity |-> FltGe(s.m.solidity, Flt(params.min_solidity)),
     score |-> FltGe(s.score, Flt(params.min_building_score))]

\* the bounds that a scored footprint fails
Failed(s) == { k \in DOMAIN FiveBounds(s) : ~ FiveBounds(s)[k] }

\* the rows of the regularized table that come from a raw footprint
RowsFrom(row) ==
    { i \in 1..Len(regularized.rows) : Cells(regularized.rows[i].geometry.box) = row.geometry }

\* C20: a raw footprint is in the regularized output if and only if it
\* passes the five hard filters: polygon area <= max_footprint_area,
\* compactness >= min_compactness, aspect ratio <= max_aspect_ratio,
\* solidity >= min_solidity and building score >= min_building_score.  So
\* every output record meets the five bounds and has a raw footprint of
\* origin, and there are no more regularized than raw footprints.
C20_HardFilters ==
    pc = "regularized" =>
        /\ \A j \in 1..Len(footprints.rows) :
              \A s \in {ScoredRaw(footprints.rows[j])} :
                  /\ RowsFrom(footprints.rows[j]) # {} <=> Failed(s) = {}
                  /\ Cardinality(RowsFrom(footprints.rows[j])) <= 1
        /\ \A i \in 1..Len(regularized.rows) :
              \E j \in 1..Len(footprints.rows) : i \in RowsFrom(footprints.rows[j])
        /\ Len(regularized.rows) <= Len(footprints.rows)

\* two raw footprints, one returned and one that fails a single bound
C20_Witness ==
    /\ pc = "regularized"
    /\ Len(footprints.rows) = 2
    /\ Len(regularized.rows) = 1
    /\ \E j \in 1..2 : Cardinality(Failed(ScoredRaw(footprints.rows[j]))) = 1

(***************************************************************************)
(* The result of run().                                                    *)
(***************************************************************************)
\* the rasters and the masks of a result
RasterFields ==
    {"probability", "confidence", "cleaned_prob", "stability", "pol_ratio_norm", "texture",
     "sar_anomaly", "optical_indicator", "cross_pol_entropy", "coherence_proxy",
     "seasonal_invariance", "validity_mask", "ndvi", "ndwi", "ndbi", "forest_mask",
     "slope_mask"}

\* every raster and mask of the result covers the grid of the SAR stack, the
\* two footprint tables are there, and all of them are those of this run
Complete(res) ==
    /\ \A k \in RasterFields : DOMAIN res[k] = DOMAIN imagery.vv[1]
    /\ res.height * res.width = Cardinality(DOMAIN imagery.vv[1])
    /\ res.footprints # None /\ res.regularized_footprints # None
    /\ res.footprints.columns = RawColumns
    /\ res.regularized_footprints.columns = RegularizedColumns
    /\ res.probability = probability /\ res.confidence = confidence
    /\ res.cleaned_prob = clean_prob /\ res.stability = indicators.stability
    /\ res.validity_mask = validity_mask /\ res.forest_mask = forest_mask
    /\ res.slope_mask = slope_mask
    /\ res.footprints = footprints /\ res.regularized_footprints = regularized
    /\ res.transform = transform /\ res.params = params

\* C16: run() either returns a complete AnalysisResult, every raster, mask
\* and footprint table populated from the same run, or raises; when a step
\* raises, no result, partial or whole, is returned or exposed.
C16_AtomicRun ==
    /\ result # None => (pc = "returned" /\ error = "" /\ Complete(result))
    /\ pc = "returned" => result # None
    /\ pc = "raised" => (result = None /\ error # "")

\* a run that returned a result with a regularized footprint
C16_Witness ==
    /\ pc = "returned"
    /\ result # None
    /\ Len(result.regularized_footprints.rows) > 0

(***************************************************************************)
(* The inputs of the caller.                                               *)
(***************************************************************************)
\* the module-level defaults and the AOI descriptor are as they were, and
\* neither analyser has a value that was passed to the other
InputsAsBefore ==
    /\ default_params = DEFAULT_PARAMS
    /\ caller = Aoi
    /\ pc # "new" => params.min_footprint_area = DEFAULT_PARAMS.min_footprint_area
    /\ other_params # None =>
          /\ other_params.thresh_medium = DEFAULT_PARAMS.thresh_medium
          /\ other_params.w_stability = DEFAULT_PARAMS.w_stability

\* a step leaves the stacks, the AOI descriptor, the module-level defaults
\* and the params of the other analyser as they are
InputsKept ==
    /\ pc # "new" => imagery' = imagery
    /\ other_params # None => other_params' = other_params
    /\ pc # "new" => params' = params
    /\ caller' = caller
    /\ default_params' = default_params

\* C17: the constructor and run(), returning or raising, leave the stacks
\* of the caller, the AOI descriptor and the module-level DEFAULT_PARAMS
\* with the values they had; the overrides passed to one analyser change
\* neither DEFAULT_PARAMS nor the params of another analyser.
C17_CallerInputsUnchanged == [] InputsAsBefore /\ [][InputsKept]_vars

\* run() has returned for an analyser with a threshold of its own, after an
\* earlier analyser was given another minimum area
C17_Witness ==
    /\ pc = "returned"
    /\ other_params # None
    /\ other_params.min_footprint_area = <<900, 1>>
    /\ params.thresh_medium = <<5, 10>>
    /\ imagery \in FrameImageries

(***************************************************************************)
(* C18: across any sequence of run() calls of the change monitor, a        *)
(* notifier's send() is invoked in a run if and only if a snapshot file    *)
(* existed before the run and the fresh feature set differs from it by at  *)
(* least one added or removed (type, id); in such a run every configured   *)
(* notifier is called exactly once, in order; a run without a snapshot     *)
(* file that returns saves the answer as the baseline, calls no notifier   *)
(* and leaves last_change_set None.                                        *)
(***************************************************************************)
\* a step that is a run() of the monitor
MonitorRan == monitor_pc' \in {"returned", "raised"}

\* the (type, id) pairs of a snapshot file
SnapshotKeys(payload) == {<<d.type, d.id>> : d \in payload.features}

\* the run returned, there was a snapshot and the fresh answer has another
\* set of (type, id) pairs
FeatureSetChanged ==
    /\ snapshot_file # None
    /\ monitor_pc' = "returned"
    /\ SnapshotKeys(snapshot_file) # {FeatureKey(f) : f \in fresh_features'}

NotifiedIffChanged ==
    /\ (Len(calls') > 0) <=> FeatureSetChanged
    /\ FeatureSetChanged => calls' = [i \in 1..Len(notifiers) |-> i]
    /\ (snapshot_file = None /\ monitor_pc' = "returned") =>
            /\ snapshot_file' = [features |-> {ToDict(f) : f \in fresh_features'}]
            /\ last_change_set' = None

RectangleTests(rec) ==
    /\ FltGt(rec.rectangularity, Flt(params.min_rectangularity))
    /\ FltGt(rec.compactness, Flt(<<20, 100>>))
    /\ FltLe(FltOne, rec.aspect_ratio)
    /\ FltLe(rec.aspect_ratio, FltInt(8))

C21_RectangleOrHull ==
    pc = "regularized" =>
        \A i \in 1..Len(regularized.rows) :
            /\ regularized.rows[i].geometry.kind \in {"mrr", "hull"}
            /\ regularized.rows[i].geometry.kind = "mrr" <=> RectangleTests(regularized.rows[i])
            /\ regularized.rows[i].is_rectangular <=> regularized.rows[i].geometry.kind = "mrr"

\* a footprint above the rectangularity floor and the compactness of 0.20
\* whose aspect ratio is above 8: its geometry is the convex hull
C21_Witness ==
    /\ pc = "regularized"
    /\ Len(regularized.rows) = 1
    /\ FltGt(regularized.rows[1].rectangularity, Flt(params.min_rectangularity))
    /\ FltGt(regularized.rows[1].compactness, Flt(<<20, 100>>))
    /\ FltGt(regularized.rows[1].aspect_ratio, FltInt(8))
    /\ regularized.rows[1].geometry.kind = "hull"
    /\ ~ regularized.rows[1].is_rectangular

(***************************************************************************)
(* C22: seasonal invariance assigns every scene to exactly one of the four *)
(* quarters Dec-Feb, Mar-May, Jun-Aug, Sep-Nov by its calendar month and   *)
(* uses a quarter only if it has at least 3 scenes; with fewer than two    *)
(* such quarters, a stack of no scene included, it is 0.5 at every pixel   *)
(* and nothing is raised; otherwise it is what it would be on the scenes   *)
(* of the qualifying quarters alone.                                       *)
(***************************************************************************)
\* the quarter of a calendar month: 1 for Dec-Feb up to 4 for Sep-Nov
QuarterOfMonth(month) == ((month % 12) \div 3) + 1

\* the scenes of the stack in a quarter
ScenesIn(q) == { t \in 1..Len(s1_time_arr) : QuarterOfMonth(s1_time_arr[t].month) = q }

\* the quarters with three scenes or more
Qualifying == { q \in 1..4 : Cardinality(ScenesIn(q)) >= 3 }

\* the scenes of the qualifying quarters, in the order of the stack
QualifyingScenes ==
    SelectSeq([t \in 1..Len(s1_time_arr) |-> t],
              LAMBDA t : QuarterOfMonth(s1_time_arr[t].month) \in Qualifying)

\* the invariance of the scenes of the qualifying quarters alone
InvarianceOfQualifying ==
    SeasonalInvariance([i \in 1..Len(QualifyingScenes) |-> vv_stack[QualifyingScenes[i]]],
                       [i \in 1..Len(QualifyingScenes) |-> s1_time_arr[QualifyingScenes[i]]])

C22_SeasonalInvariance ==
    /\ \A px \in 1..NPix :
          InvarianceOf(QuarterMeans(<< >>, << >>), 1..NPix)[px] = Flt(<<5, 10>>)
    /\ pc = "sar_indicators" =>
          /\ error = ""
          /\ \A t \in 1..Len(s1_time_arr) :
                { q \in 1..4 : s1_time_arr[t].month \in Quarters[q] }
                    = { QuarterOfMonth(s1_time_arr[t].month) }
          /\ Cardinality(Qualifying) < 2 =>
                \A px \in DOMAIN indicators.seasonal_inv :
                    indicators.seasonal_inv[px] = Flt(<<5, 10>>)
          /\ Cardinality(Qualifying) >= 2 =>
                indicators.seasonal_inv = InvarianceOfQualifying

\* two full quarters and a scene of April that is in neither; a pixel whose
\* backscatter is higher in summer scores below a pixel that is flat, and a
\* pixel that stands out in April only scores as the flat one
C22_Witness ==
    /\ pc = "sar_indicators"
    /\ Cardinality(Qualifying) = 2
    /\ Len(QualifyingScenes) < Len(s1_time_arr)
    /\ \E px \in DOMAIN vv_stack[1] : \E t \in 1..Len(vv_stack) : vv_stack[t][px] = FltInt(9)
    /\ \E px, py \in DOMAIN indicators.seasonal_inv :
          FltLt(indicators.seasonal_inv[px], indicators.seasonal_inv[py])

(***************************************************************************)
(* C24: the validity mask holds at a pixel only if the SAR mean, the NDVI  *)
(* and the elevation have data at that pixel and at every pixel within     *)
(* edge_erosion_px of it (Chebyshev distance), and the pixel is at least   *)
(* edge_erosion_px pixels from the border of the grid; with                *)
(* edge_erosion_px = 0 the mask is the AND of the three has-data checks.   *)
(* The elevation is that of a raster on the grid of the SAR stack.         *)
(***************************************************************************)
\* the margin of the run
EdgePx == params.edge_erosion_px[1] \div params.edge_erosion_px[2]

\* the offsets within the margin
Margin == (-EdgePx)..EdgePx

\* every input has data at the pixel q
HasData(q) ==
    /\ ~ IsNaN(vv_mean[q])
    /\ ~ IsNaN(ndvi[q])
    /\ DOMAIN imagery.dem = DOMAIN vv_mean => ~ IsNaN(imagery.dem[q])

C23_RaisedBeforeComputation ==
    pc = "raised" =>
        /\ indicators = << >>
        /\ validity_mask = << >>
        /\ forest_mask = << >>
        /\ combined_mask = << >>
        /\ fusion = << >>

(***************************************************************************)
(* C25: an optical observation (scene, pixel) contributes to the median    *)
(* composite if and only if its classification code is one of 4, 5, 6, 7,  *)
(* 11, for every reflectance band alike; a pixel with no clear observation *)
(* in any scene has a missing NDVI, fails the validity mask and has a      *)
(* missing probability.                                                    *)
(***************************************************************************)
\* the scenes in which a pixel is clear, in order
ClearScenes(px) ==
    SelectSeq([t \in 1..Len(imagery.s2.scl) |-> t],
              LAMBDA t : imagery.s2.scl[t][px] \in {4, 5, 6, 7, 11})

\* the median of the clear observations of a band at a pixel, over 10000
ClearComposite(b) ==
    [px \in DOMAIN imagery.s2.scl[1] |->
        FltDiv(NanMedian([i \in 1..Len(ClearScenes(px)) |->
                             imagery.s2.refl[b][ClearScenes(px)[i]][px]]),
               FltInt(10000))]

C25_CloudMasking ==
    (pc \in {"indexed", "masked", "fused"} /\ "s2" \in DOMAIN imagery) =>
        /\ ndvi = NormalizedDifference(ClearComposite("B08"), ClearComposite("B04"))
        /\ ndwi = NormalizedDifference(ClearComposite("B03"), ClearComposite("B08"))
        /\ ndbi = NormalizedDifference(ClearComposite("B11"), ClearComposite("B08"))
        /\ \A px \in DOMAIN ndvi :
              Len(ClearScenes(px)) = 0 =>
                  /\ IsNaN(ndvi[px])
                  /\ pc \in {"masked", "fused"} => ~ validity_mask[px]
                  /\ pc = "fused" => IsNaN(probability[px])

\* a fused run without edge erosion: a pixel that is never clear and has no
\* probability, next to a pixel that is clear in one scene of three and has
\* one
C25_Witness ==
    /\ pc = "fused"
    /\ "s2" \in DOMAIN imagery
    /\ \E px \in DOMAIN ndvi : Len(ClearScenes(px)) = 0 /\ IsNaN(probability[px])
    /\ \E px \in DOMAIN ndvi :
          /\ Len(ClearScenes(px)) = 1
          /\ ~ IsNaN(probability[px])

(***************************************************************************)
(* C26: the raw footprints are in one-to-one correspondence with the       *)
(* 4-connected components of the cleaned above-threshold mask whose pixel  *)
(* count times |pixel width x pixel height| is at least min_area (blobs    *)
(* that touch only at a corner are separate footprints); area_m2 is that   *)
(* product, and prob_mean and prob_max are the mean and the maximum of the *)
(* cleaned probability over exactly the component's pixels, as stored:     *)
(* rounded to four decimals, so that round(threshold, 4) <= prob_mean <=   *)
(* prob_max.                                                               *)
(***************************************************************************)
\* two pixels that share an edge
SharesEdge(p, q) == Abs(p[1] - q[1]) + Abs(p[2] - q[2]) = 1

\* the cleaned mask above the medium threshold
CleanedMask ==
    { px \in DOMAIN clean_prob :
        ~ IsNaN(clean_prob[px]) /\ FltGe(clean_prob[px], Flt(params.thresh_medium)) }

RECURSIVE Reach(_, _)
\* the pixels of the mask joined to "seen" by a chain of shared edges
Reach(seen, mask) ==
    IF \E q \in mask \ seen : \E p \in seen : SharesEdge(p, q)
    THEN Reach(seen \cup { q \in mask : \E p \in seen : SharesEdge(p, q) }, mask)
    ELSE seen

\* the components of the cleaned mask that are large enough
LargeComponents ==
    { c \in { Reach({px}, CleanedMask) : px \in CleanedMask } :
        Cardinality(c) * Abs(transform.a * transform.e) * params.min_footprint_area[2]
            >= params.min_footprint_area[1] }

\* the cleaned probability over a component, in scan order
ValuesOver(c) == [i \in 1..Cardinality(c) |-> clean_prob[RowMajor(c)[i]]]

\* the rows of the raw table describe the large components, one row each
RowsAreComponents ==
    /\ { footprints.rows[i].geometry : i \in DOMAIN footprints.rows } = LargeComponents
    /\ Len(footprints.rows) = Cardinality(LargeComponents)
    /\ \A i \in DOMAIN footprints.rows :
          footprints.rows[i].area_m2 =
              Cardinality(footprints.rows[i].geometry) * Abs(transform.a * transform.e)

C26_RawFootprints ==
    pc = "vectorised" =>
        /\ RowsAreComponents
        /\ \A i \in DOMAIN footprints.rows :
              /\ footprints.rows[i].prob_mean =
                     Round(NanMean(ValuesOver(footprints.rows[i].geometry)), 4)
              /\ footprints.rows[i].prob_max =
                     Round(NanMax(ValuesOver(footprints.rows[i].geometry)), 4)
              /\ FltLe(Round(Flt(params.thresh_medium), 4), footprints.rows[i].prob_mean)
              /\ FltLe(footprints.rows[i].prob_mean, footprints.rows[i].prob_max)

\* C26 as stated: prob_mean and prob_max are the mean and the maximum
\* themselves, and the threshold itself is a lower bound of prob_mean
C26_AsStated ==
    pc = "vectorised" =>
        /\ RowsAreComponents
        /\ \A i \in DOMAIN footprints.rows :
              /\ footprints.rows[i].prob_mean = NanMean(ValuesOver(footprints.rows[i].geometry))
              /\ footprints.rows[i].prob_max = NanMax(ValuesOver(footprints.rows[i].geometry))
              /\ FltLe(Flt(params.thresh_medium), footprints.rows[i].prob_mean)
              /\ FltLe(footprints.rows[i].prob_mean, footprints.rows[i].prob_max)

\* two footprints whose pixels touch at a corner and nowhere along an edge,
\* one of them with a mean below its maximum
C26_Witness ==
    /\ pc = "vectorised"
    /\ \E i, j \in DOMAIN footprints.rows :
          /\ i # j
          /\ \E p \in footprints.rows[i].geometry, q \in footprints.rows[j].geometry :
                Abs(p[1] - q[1]) = 1 /\ Abs(p[2] - q[2]) = 1
          /\ FltLt(footprints.rows[i].prob_mean, footprints.rows[j].prob_max)

(***************************************************************************)
(* C27: the parameters recorded in a returned AnalysisResult are a         *)
(* snapshot of the parameters used to produce it, and the result is        *)
(* immutable after creation: no step taken after run() has returned, a     *)
(* change of the analyser's params included, changes a field of the        *)
(* returned result.                                                        *)
(***************************************************************************)
C27_ResultUnchanged == [][pc = "returned" => result' = result]_vars

(***************************************************************************)
(* C28: within one run with thresh_medium <= thresh_high, every pixel that *)
(* is not missing in the cleaned probability has the value it has in the   *)
(* probability, lies inside the combined mask and has confidence >= 2;     *)
(* every pixel with confidence >= 2 has a probability that is not missing  *)
(* and is >= thresh_medium; and every pixel of a raw footprint is not      *)
(* missing in the cleaned probability.                                     *)
(***************************************************************************)
ThresholdsInOrder == FltLe(Flt(params.thresh_medium), Flt(params.thresh_high))

CleanedFromProbability ==
    \A px \in DOMAIN clean_prob :
        ~ IsNaN(clean_prob[px]) =>
            /\ clean_prob[px] = probability[px]
            /\ combined_mask[px]
            /\ confidence[px] >= 2

ConfidentIsAboveMedium ==
    \A px \in DOMAIN confidence :
        confidence[px] >= 2 =>
            /\ ~ IsNaN(probability[px])
            /\ FltGe(probability[px], Flt(params.thresh_medium))

FootprintsInsideCleaned ==
    \A i \in DOMAIN footprints.rows :
        \A px \in footprints.rows[i].geometry : ~ IsNaN(clean_prob[px])

C28_StagesAgree ==
    (pc = "vectorised" /\ ThresholdsInOrder) =>
        /\ CleanedFromProbability
        /\ ConfidentIsAboveMedium
        /\ FootprintsInsideCleaned

\* a run with a footprint, with a pixel of confidence 2 and one of
\* confidence 3 that the opening removed, and with a pixel that is above
\* the threshold in the fusion and outside the combined mask
C28_Witness ==
    /\ pc = "vectorised"
    /\ ThresholdsInOrder
    /\ Len(footprints.rows) > 0
    /\ \E px \in DOMAIN confidence : confidence[px] = 3 /\ IsNaN(clean_prob[px])
    /\ \E px \in DOMAIN confidence : confidence[px] = 2 /\ ~ IsNaN(clean_prob[px])
    /\ \E px \in DOMAIN fusion :
          /\ ~ combined_mask[px]
          /\ FltGe(fusion[px], Flt(params.thresh_medium))
          /\ IsNaN(probability[px])

(***************************************************************************)
(* C29: every run of the change monitor that finds a previous snapshot and *)
(* gets an answer replaces the persisted snapshot by that answer, also     *)
(* when a notifier raises; so the snapshot is always the answer of the     *)
(* latest poll, and the change set of a poll is the difference by          *)
(* (feature_type, feature_id) between its answer and the answer of the     *)
(* poll before: added = current minus previous, removed = previous minus   *)
(* current, the two disjoint, and both empty when the answers are the      *)
(* same.                                                                   *)
(***************************************************************************)
KeysOf(features) == {FeatureKey(f) : f \in features}

\* the snapshot file holds the answer of the latest poll
SnapshotIsLatestAnswer ==
    snapshot_file # None => LoadSnapshot(snapshot_file) = fresh_features

\* a run() of the monitor that starts with a snapshot file
RanWithSnapshot == MonitorRan /\ snapshot_file # None

\* the change set of the step, between the answer before and the answer now
DiffOfConsecutivePolls ==
    /\ last_change_set'.added =
           {f \in fresh_features' : FeatureKey(f) \notin KeysOf(fresh_features)}
    /\ last_change_set'.removed =
           {f \in fresh_features : FeatureKey(f) \notin KeysOf(fresh_features')}
    /\ KeysOf(last_change_set'.added) \cap KeysOf(last_change_set'.removed) = {}
    /\ fresh_features' = fresh_features =>
           last_change_set'.added = {} /\ last_change_set'.removed = {}

PollReplacesSnapshot ==
    /\ Len(calls') > 0 => monitor_pc' = "returned"
    /\ monitor_pc' = "returned" =>
           /\ LoadSnapshot(snapshot_file') = fresh_features'
           /\ DiffOfConsecutivePolls

QueriesIssued == SelectSeq(attempts, LAMBDA a : a # "sleep")

\* every sleep stands between a failed query and the next query
SleepsBetweenAttempts ==
    \A i \in DOMAIN attempts :
        attempts[i] = "sleep" =>
            /\ i > 1 /\ attempts[i - 1] = "error"
            /\ i < Len(attempts) /\ attempts[i + 1] # "sleep"

RetryLoop ==
    /\ Len(QueriesIssued) <= max_retries \/ Len(QueriesIssued) = 0
    /\ \A i \in DOMAIN QueriesIssued : QueriesIssued[i] = "ok" => i = Len(QueriesIssued)
    /\ SleepsBetweenAttempts
    /\ (client_pc = "raised" /\ Len(attempts) > 0) =>
           /\ Len(QueriesIssued) = max_retries
           /\ \A i \in DOMAIN QueriesIssued : QueriesIssued[i] = "error"

C30_ReturnsOnlyAfterSuccess ==
    /\ RetryLoop
    /\ client_pc = "returned" =>
           /\ Len(attempts) > 0
           /\ attempts[Len(attempts)] = "ok"

=============================================================================
